---- MODULE Spec2Model ----
(***************************************************************************)
(* A state-machine model of the HFTPM hot path: the risk manager           *)
(* (src/src/risk/mod.rs), the order-book store                             *)
(* (src/src/orderbook/manager.rs) and the single-market arbitrage           *)
(* detector (src/src/arb_engine/mod.rs), driven the way                     *)
(* src/src/websocket/client.rs drives them.                                 *)
(*                                                                         *)
(* rust_decimal::Decimal values are fixed-point integers with DecScale      *)
(* units per 1; wall-clock time is `now`, in milliseconds.                  *)
(***************************************************************************)
EXTENDS Integers, Sequences, FiniteSets, TLC

VARIABLES
    now,              \* wall clock, ms since the epoch (SystemTime::now / Utc::now)
    config,           \* the Config the components were built with
    positions,        \* RiskManager.positions: asset_id -> Position
    market_exposure,  \* RiskManager.market_exposure: market_id -> Decimal
    event_exposure,   \* RiskManager.event_exposure: market_id -> Decimal
    daily_pnl,        \* RiskManager.daily_pnl
    active_arbs,      \* RiskManager.active_arbs
    last_cleanup,     \* RiskManager.last_cleanup
    pending,          \* the opportunity execute_arbitrage has admitted and is executing
    recorded,         \* history: number of executions recorded so far
    market_books,     \* OrderBookManager.market_books: market_id -> MarketBooks
    markets,          \* ParallelScanner.markets: the catalog the scanner was built with
    correlations,     \* ParallelScanner.correlations
    simulated_balance, \* SimulationExecutor.simulated_balance
    trades,           \* SimulationExecutor.trades
    sim_calls,        \* simulate_arbitrage calls between their two lock sections
    tracker,          \* the ShortWindowArbTracker of the short-window simulator
    live_stage,       \* where the live executor's execute_arbitrage stands
    cancel_alls,      \* history: cancel-all requests sent since the last submission
    running,          \* lib.rs::run has not been interrupted
    inbox,            \* the messages of the current frame still to be handled
    connected,        \* connect_and_run is reading the stream
    last              \* history: the last operation performed and what it returned

vars == <<now, config, positions, market_exposure, event_exposure, daily_pnl,
          active_arbs, last_cleanup, pending, recorded, market_books, markets,
          correlations, simulated_balance, trades, sim_calls, tracker, live_stage,
          cancel_alls, running, inbox, connected, last>>

riskVars == <<positions, market_exposure, event_exposure, daily_pnl,
              active_arbs, last_cleanup, pending, recorded>>

scannerVars == <<markets, correlations>>

simVars == <<simulated_balance, trades, sim_calls, tracker>>

liveVars == <<live_stage, cancel_alls, running>>

wsVars == <<inbox, connected>>

sessionVars == <<simVars, liveVars, wsVars>>

-----------------------------------------------------------------------------
(* Option<T>: None is the empty sequence, Some(x) the one-element sequence. *)

None == <<>>

Some(x) == <<x>>

IsSome(o) == Len(o) = 1

Unwrap(o) == o[1]

(* A HashMap as a function whose domain is its key set. *)
EmptyMap == <<>>

MapGet(m, k, default) == IF k \in DOMAIN m THEN m[k] ELSE default

MapPut(m, k, v) == [x \in (DOMAIN m) \cup {k} |-> IF x = k THEN v ELSE m[x]]

MapRemoveAll(m, ks) == [x \in (DOMAIN m) \ ks |-> m[x]]

RECURSIVE SumOver(_, _)
SumOver(S, f) ==
    IF S = {} THEN 0
    ELSE LET x == CHOOSE y \in S : TRUE IN f[x] + SumOver(S \ {x}, f)

RECURSIVE SeqSum(_)
SeqSum(s) == IF s = <<>> THEN 0 ELSE Head(s) + SeqSum(Tail(s))

Min2(a, b) == IF a <= b THEN a ELSE b

Abs(x) == IF x < 0 THEN -x ELSE x

-----------------------------------------------------------------------------
(* rust_decimal::Decimal as fixed point.                                    *)

DecScale == 1000

D(n) == n * DecScale

DecOne == DecScale

\* round-to-nearest integer quotient of non-negative a by positive b
RoundDiv(a, b) == (2 * a + b) \div (2 * b)

DecMul(a, b) == RoundDiv(a * b, DecScale)

DecDiv(a, b) == RoundDiv(a * DecScale, b)

-----------------------------------------------------------------------------
(* Clock.                                                                   *)

MsPerSecond == 1000

SecondsPerDay == 86400

\* Utc::now().timestamp()
UtcTimestamp == now \div MsPerSecond

\* Utc::now().format("%Y-%m-%d"): the UTC date, as a day number
Today == now \div (MsPerSecond * SecondsPerDay)

-----------------------------------------------------------------------------
(* Bounds of the model.                                                     *)

\* executions recorded in one run
MaxRecorded == 3

\* clock steps in one risk run
MaxRiskTicks == 4

\* clock steps in one store run
MaxStoreTicks == 1

-----------------------------------------------------------------------------
(* Risk manager: src/src/risk/mod.rs                                        *)

\* RiskManager::new: the tracker of the day the manager is built on
NewDailyPnl(today) ==
    [date |-> today, realized_pnl |-> 0, unrealized_pnl |-> 0,
     total_pnl |-> 0, trade_count |-> 0, arb_count |-> 0]

\* variant of reset_daily_pnl: only the date is replaced
reset_daily_pnl_DateOnly(today) == [daily_pnl EXCEPT !.date = today]

reset_daily_pnl(today) ==
    [date |-> today, realized_pnl |-> 0, unrealized_pnl |-> 0,
     total_pnl |-> 0, trade_count |-> 0, arb_count |-> 0]

\* the tracker can_execute_arbitrage evaluates: rolled over when the date changed
RolledDailyPnl == IF daily_pnl.date # Today THEN reset_daily_pnl(Today) ELSE daily_pnl

RECURSIVE EdgeSizeSum(_)
EdgeSizeSum(edges) ==
    IF edges = <<>> THEN 0 ELSE Head(edges).size + EdgeSizeSum(Tail(edges))

RECURSIVE EdgeNotionalSum(_)
EdgeNotionalSum(edges) ==
    IF edges = <<>> THEN 0
    ELSE DecMul(Head(edges).size, Head(edges).price) + EdgeNotionalSum(Tail(edges))

calculate_inventory_change(arb_op) ==
    [net_delta |-> EdgeSizeSum(arb_op.edges),
     total_exposure |-> EdgeNotionalSum(arb_op.edges),
     market_count |-> 1]

calculate_current_inventory(pos, expo) ==
    [net_delta |-> SumOver(DOMAIN pos, [a \in DOMAIN pos |-> pos[a].size]),
     total_exposure |-> SumOver(DOMAIN pos, [a \in DOMAIN pos |-> pos[a].total_cost]),
     market_count |-> Cardinality(DOMAIN expo)]

\* variant of GateVerdict: liquidity equal to the configured minimum is refused
GateVerdict_LiquidityStrict(pnl, arb_op) ==
    IF active_arbs >= config.max_concurrent_arbs THEN FALSE
    ELSE IF pnl.total_pnl < -D(config.daily_loss_limit) THEN FALSE
    ELSE IF MapGet(market_exposure, arb_op.market_id, 0) + arb_op.position_size
                > D(config.max_exposure_per_market) THEN FALSE
    ELSE IF Abs(calculate_current_inventory(positions, market_exposure).net_delta
                + calculate_inventory_change(arb_op).net_delta)
                > config.inventory_drift_threshold THEN FALSE
    ELSE IF arb_op.min_liquidity <= D(config.min_liquidity) THEN FALSE
    ELSE TRUE

\* variant of GateVerdict: an opportunity is still admitted at the limit of arbs
GateVerdict_ArbsInclusive(pnl, arb_op) ==
    IF active_arbs > config.max_concurrent_arbs THEN FALSE
    ELSE IF pnl.total_pnl < -D(config.daily_loss_limit) THEN FALSE
    ELSE IF MapGet(market_exposure, arb_op.market_id, 0) + arb_op.position_size
                > D(config.max_exposure_per_market) THEN FALSE
    ELSE IF Abs(calculate_current_inventory(positions, market_exposure).net_delta
                + calculate_inventory_change(arb_op).net_delta)
                > config.inventory_drift_threshold THEN FALSE
    ELSE IF arb_op.min_liquidity < D(config.min_liquidity) THEN FALSE
    ELSE TRUE

\* the verdict of can_execute_arbitrage once the daily tracker is pnl
GateVerdict(pnl, arb_op) ==
    IF active_arbs >= config.max_concurrent_arbs THEN FALSE
    ELSE IF pnl.total_pnl < -D(config.daily_loss_limit) THEN FALSE
    ELSE IF MapGet(market_exposure, arb_op.market_id, 0) + arb_op.position_size
                > D(config.max_exposure_per_market) THEN FALSE
    ELSE IF Abs(calculate_current_inventory(positions, market_exposure).net_delta
                + calculate_inventory_change(arb_op).net_delta)
                > config.inventory_drift_threshold THEN FALSE
    ELSE IF arb_op.min_liquidity < D(config.min_liquidity) THEN FALSE
    ELSE TRUE

\* variant of can_execute_arbitrage: an admitted opportunity is counted at once
can_execute_arbitrage_Counting(arb_op) ==
    /\ daily_pnl' = RolledDailyPnl
    /\ last' = [kind |-> "can_execute", op |-> arb_op,
                verdict |-> GateVerdict(RolledDailyPnl, arb_op),
                rolled |-> (daily_pnl.date # Today),
                trades_before |-> daily_pnl.trade_count,
                repeat |-> (last.kind \in {"can_execute", "exec_error"}
                            /\ last.op = arb_op)]
    /\ active_arbs' = IF GateVerdict(RolledDailyPnl, arb_op)
                      THEN active_arbs + 1 ELSE active_arbs
    /\ UNCHANGED <<positions, market_exposure, event_exposure, last_cleanup>>

can_execute_arbitrage(arb_op) ==
    /\ daily_pnl' = RolledDailyPnl
    /\ last' = [kind |-> "can_execute", op |-> arb_op,
                verdict |-> GateVerdict(RolledDailyPnl, arb_op),
                rolled |-> (daily_pnl.date # Today),
                trades_before |-> daily_pnl.trade_count,
                repeat |-> (last.kind \in {"can_execute", "exec_error"}
                            /\ last.op = arb_op)]
    /\ UNCHANGED <<positions, market_exposure, event_exposure, active_arbs,
                   last_cleanup>>

\* positions.insert(asset_id, position): a position already held for the asset is
\* replaced.  History field opps: the executions that opened a position on the
\* asset and have not been swept.
add_position(pos, market_id, edge, opp) ==
    MapPut(pos, edge.asset_id,
           [market_id |-> market_id, asset_id |-> edge.asset_id,
            outcome |-> edge.outcome, position_type |-> "Long",
            size |-> edge.size, avg_price |-> edge.price,
            total_cost |-> edge.expected_cost, entry_time |-> UtcTimestamp,
            current_pnl |-> 0,
            opps |-> (IF edge.asset_id \in DOMAIN pos
                      THEN pos[edge.asset_id].opps ELSE {}) \cup {opp}])

RECURSIVE AddPositions(_, _, _, _)
AddPositions(pos, market_id, edges, opp) ==
    IF edges = <<>> THEN pos
    ELSE AddPositions(add_position(pos, market_id, Head(edges), opp),
                      market_id, Tail(edges), opp)

AddExposure(expo, market_id, edges) ==
    MapPut(expo, market_id, MapGet(expo, market_id, 0) + EdgeSizeSum(edges))

StaleAssets(pos) ==
    {a \in DOMAIN pos :
        UtcTimestamp - pos[a].entry_time > config.position_timeout_seconds}

SaturatingSub(n, k) == IF n >= k THEN n - k ELSE 0

StaleSizeIn(pos, m) ==
    LET S == {a \in StaleAssets(pos) : pos[a].market_id = m}
    IN  SumOver(S, [a \in S |-> pos[a].size])

\* the sweep: what it makes of positions, market exposure and active_arbs
cleanup_stale_positions(pos, expo, arbs) ==
    [positions |-> MapRemoveAll(pos, StaleAssets(pos)),
     market_exposure |-> [m \in DOMAIN expo |-> expo[m] - StaleSizeIn(pos, m)],
     active_arbs |-> SaturatingSub(arbs, Cardinality(StaleAssets(pos)))]

\* variant: every returned result is booked
ExecutionCounts_Always(result) == TRUE

\* the test that guards the bookkeeping of a returned result
ExecutionCounts(result) == result.success \/ result.partial_fill

record_arbitrage_execution(arb_op, result) ==
    LET ok   == ExecutionCounts(result)
        pos1 == IF ok THEN AddPositions(positions, arb_op.market_id, arb_op.edges,
                                        recorded + 1)
                ELSE positions
        mx1  == IF ok THEN AddExposure(market_exposure, arb_op.market_id, arb_op.edges)
                ELSE market_exposure
        ex1  == IF ok THEN AddExposure(event_exposure, arb_op.market_id, arb_op.edges)
                ELSE event_exposure
        arbs1 == IF ok THEN active_arbs + 1 ELSE active_arbs
        swept == cleanup_stale_positions(pos1, mx1, arbs1)
    IN  /\ positions' = swept.positions
        /\ market_exposure' = swept.market_exposure
        /\ event_exposure' = ex1
        /\ active_arbs' = swept.active_arbs
        /\ daily_pnl' =
              IF ok
              THEN [daily_pnl EXCEPT
                      !.arb_count = @ + 1,
                      !.trade_count = @ + 1,
                      !.realized_pnl = IF result.filled THEN @ + result.total_cost ELSE @]
              ELSE daily_pnl
        /\ last_cleanup' = UtcTimestamp
        /\ recorded' = IF ok THEN recorded + 1 ELSE recorded
        /\ last' = [kind |-> "record", ok |-> result.success \/ result.partial_fill,
                    swept |-> StaleAssets(pos1)]

should_stop_trading == daily_pnl.total_pnl < -D(config.daily_loss_limit)

-----------------------------------------------------------------------------
(* The pipeline's use of the risk manager:                                  *)
(* WebSocketClient::execute_arbitrage, src/src/websocket/client.rs.         *)

\* the gate: a rejected opportunity is dropped, an admitted one goes to the executor
ExecuteGate(arb_op) ==
    /\ pending = None
    /\ recorded < MaxRecorded
    /\ can_execute_arbitrage(arb_op)
    /\ pending' = IF GateVerdict(RolledDailyPnl, arb_op) THEN Some(arb_op) ELSE None
    /\ UNCHANGED <<now, config, recorded, market_books, scannerVars, sessionVars>>

\* the executor returned Ok(result): the result is recorded
ExecuteRecord(result) ==
    /\ IsSome(pending)
    /\ record_arbitrage_execution(Unwrap(pending), result)
    /\ pending' = None
    /\ UNCHANGED <<now, config, market_books, scannerVars, sessionVars>>

\* the executor returned Err: nothing is recorded
ExecuteError ==
    /\ IsSome(pending)
    /\ pending' = None
    /\ last' = [kind |-> "exec_error", op |-> Unwrap(pending)]
    /\ UNCHANGED <<now, config, positions, market_exposure, event_exposure,
                   daily_pnl, active_arbs, last_cleanup, recorded, market_books,
                   scannerVars, sessionVars>>

\* time passes
Tick(d) ==
    /\ now' = now + d
    /\ last' = [kind |-> "tick"]
    /\ UNCHANGED <<config, riskVars, market_books, scannerVars, sessionVars>>

-----------------------------------------------------------------------------
(* Order-book store: src/src/orderbook/manager.rs, src/src/websocket/types.rs *)

\* the staleness bound update_book passes to BookSnapshot::is_stale
StaleSnapshotMs == 500

\* Vec<(Decimal, Decimal)>.iter().cloned().collect::<BTreeMap>(): later entries
\* of a price replace earlier ones
RECURSIVE LadderFromLevels(_, _)
LadderFromLevels(ladder, levels) ==
    IF levels = <<>> THEN ladder
    ELSE LadderFromLevels(MapPut(ladder, Head(levels)[1], Head(levels)[2]), Tail(levels))

\* variant of SnapshotIsStale: the difference taken the other way round
SnapshotIsStale_Reversed(snapshot, max_age_ms) == snapshot.timestamp - now > max_age_ms

\* BookSnapshot::is_stale(max_age_ms)
SnapshotIsStale(snapshot, max_age_ms) == now - snapshot.timestamp > max_age_ms

\* OrderBook::new followed by OrderBook::update_from_snapshot
update_from_snapshot(market_id, asset_id, snapshot) ==
    [market_id |-> market_id, asset_id |-> asset_id,
     bids |-> LadderFromLevels(EmptyMap, snapshot.bids),
     asks |-> LadderFromLevels(EmptyMap, snapshot.asks),
     timestamp |-> snapshot.timestamp, hash |-> snapshot.hash]

\* MarketBooks::new
NewMarketBooks(market_id) ==
    [market_id |-> market_id, asset_id_yes |-> None, asset_id_no |-> None,
     books |-> <<>>]

\* books.iter().position(|b| b.asset_id == asset_id): 0 when there is none
BookIndex(books, asset_id) ==
    IF \E i \in 1..Len(books) : books[i].asset_id = asset_id
    THEN CHOOSE i \in 1..Len(books) :
            /\ books[i].asset_id = asset_id
            /\ \A j \in 1..(i - 1) : books[j].asset_id # asset_id
    ELSE 0

\* replace the asset's book in place, or push it
PutBook(books, book) ==
    LET idx == BookIndex(books, book.asset_id)
    IN  IF idx # 0 THEN [books EXCEPT ![idx] = book] ELSE Append(books, book)

\* variant of AssignTags: the second branch tags the second book twice
AssignTags_SameBook(mb) ==
    IF Len(mb.books) = 2
    THEN IF Cardinality(DOMAIN mb.books[1].bids) > Cardinality(DOMAIN mb.books[1].asks)
         THEN [mb EXCEPT !.asset_id_yes = Some(mb.books[1].asset_id),
                         !.asset_id_no = Some(mb.books[2].asset_id)]
         ELSE [mb EXCEPT !.asset_id_yes = Some(mb.books[2].asset_id),
                         !.asset_id_no = Some(mb.books[2].asset_id)]
    ELSE mb

\* with exactly two books, the yes/no tags from the first book's level counts
AssignTags(mb) ==
    IF Len(mb.books) = 2
    THEN IF Cardinality(DOMAIN mb.books[1].bids) > Cardinality(DOMAIN mb.books[1].asks)
         THEN [mb EXCEPT !.asset_id_yes = Some(mb.books[1].asset_id),
                         !.asset_id_no = Some(mb.books[2].asset_id)]
         ELSE [mb EXCEPT !.asset_id_yes = Some(mb.books[2].asset_id),
                         !.asset_id_no = Some(mb.books[1].asset_id)]
    ELSE mb

\* the store update_book leaves behind
UpdatedStore(market_id, asset_id, snapshot) ==
    IF SnapshotIsStale(snapshot, StaleSnapshotMs) THEN market_books
    ELSE LET mb == MapGet(market_books, market_id, NewMarketBooks(market_id))
             new_book == update_from_snapshot(market_id, asset_id, snapshot)
         IN  MapPut(market_books, market_id,
                    AssignTags([mb EXCEPT !.books = PutBook(mb.books, new_book)]))

update_book(market_id, asset_id, snapshot) ==
    /\ market_books' = UpdatedStore(market_id, asset_id, snapshot)
    /\ last' = [kind |-> "update_book", market_id |-> market_id,
                asset_id |-> asset_id, snapshot |-> snapshot]
    /\ UNCHANGED <<now, config, riskVars, scannerVars, sessionVars>>

\* OrderBook::update_price: upsert or remove one level, stamp the book with now
BookUpdatePrice(book, price, size, side) ==
    LET bids == IF side \in {"BUY", "buy"}
                THEN IF size > 0 THEN MapPut(book.bids, price, size)
                     ELSE MapRemoveAll(book.bids, {price})
                ELSE book.bids
        asks == IF side \in {"SELL", "sell"}
                THEN IF size > 0 THEN MapPut(book.asks, price, size)
                     ELSE MapRemoveAll(book.asks, {price})
                ELSE book.asks
    IN  [book EXCEPT !.bids = bids, !.asks = asks, !.timestamp = now]

\* OrderBookManager::update_price: Err("Market not found") for an unknown market,
\* else the first book of the asset is updated, if there is one
PriceUpdatedStore(store, market_id, asset_id, price, size, side) ==
    IF market_id \notin DOMAIN store THEN store
    ELSE LET mb == store[market_id]
             idx == BookIndex(mb.books, asset_id)
         IN  IF idx = 0 THEN store
             ELSE MapPut(store, market_id,
                         [mb EXCEPT !.books[idx] =
                             BookUpdatePrice(mb.books[idx], price, size, side)])

update_price(market_id, asset_id, price, size, side) ==
    /\ market_books' =
          PriceUpdatedStore(market_books, market_id, asset_id, price, size, side)
    /\ last' = [kind |-> "update_price", market_id |-> market_id,
                asset_id |-> asset_id,
                result |-> IF market_id \in DOMAIN market_books THEN "Ok" ELSE "Err"]
    /\ UNCHANGED <<now, config, riskVars, scannerVars, sessionVars>>

\* OrderBook::is_stale(max_age_ms)
BookIsStale(book, max_age_ms) == now - book.timestamp > max_age_ms

\* OrderBookManager::cleanup_stale_books: a market with a stale book is dropped
cleanup_stale_books(max_age_ms) ==
    /\ market_books' =
          MapRemoveAll(market_books,
              {m \in DOMAIN market_books :
                  \E i \in 1..Len(market_books[m].books) :
                      BookIsStale(market_books[m].books[i], max_age_ms)})
    /\ last' = [kind |-> "cleanup_stale_books"]
    /\ UNCHANGED <<now, config, riskVars, scannerVars, sessionVars>>

is_binary(mb) ==
    Len(mb.books) = 2 /\ IsSome(mb.asset_id_yes) /\ IsSome(mb.asset_id_no)

MinKey(ladder) == CHOOSE p \in DOMAIN ladder : \A q \in DOMAIN ladder : p <= q

MaxKey(ladder) == CHOOSE p \in DOMAIN ladder : \A q \in DOMAIN ladder : p >= q

\* OrderBook::best_ask: the lowest ask and its size
best_ask(book) ==
    IF DOMAIN book.asks = {} THEN None
    ELSE Some(<<MinKey(book.asks), book.asks[MinKey(book.asks)]>>)

\* OrderBook::best_bid: the highest bid and its size
best_bid(book) ==
    IF DOMAIN book.bids = {} THEN None
    ELSE Some(<<MaxKey(book.bids), book.bids[MaxKey(book.bids)]>>)

RECURSIVE BestAsksOf(_)
BestAsksOf(books) ==
    IF books = <<>> THEN <<>>
    ELSE LET b == Head(books)
         IN  (IF IsSome(best_ask(b))
              THEN <<[asset_id |-> b.asset_id, price |-> Unwrap(best_ask(b))[1],
                      size |-> Unwrap(best_ask(b))[2]]>>
              ELSE <<>>) \o BestAsksOf(Tail(books))

\* OrderBookManager::get_best_asks_for_market, for a market in the store
get_best_asks_for_market(market_id) == BestAsksOf(market_books[market_id].books)

-----------------------------------------------------------------------------
(* Single-market detector: src/src/arb_engine/mod.rs                        *)

\* the characters of the identifiers the runs use (str::contains works on them)
Chars(id) ==
    CASE id = "m1" -> <<"m", "1">>
      [] id = "m2" -> <<"m", "2">>
      [] id = "m3" -> <<"m", "3">>
      [] id = "3"  -> <<"3">>
      [] OTHER     -> <<id>>

\* str::contains
StrContains(hay, needle) ==
    \E i \in 0..(Len(Chars(hay)) - Len(Chars(needle))) :
        SubSeq(Chars(hay), i + 1, i + Len(Chars(needle))) = Chars(needle)

\* variant of is_market_blacklisted: whole identifiers compared
is_market_blacklisted_Exact(market_id) ==
    \E i \in 1..Len(config.blacklisted_markets) :
        market_id = config.blacklisted_markets[i]

\* RiskManager::is_market_blacklisted
is_market_blacklisted(market_id) ==
    \E i \in 1..Len(config.blacklisted_markets) :
        StrContains(market_id, config.blacklisted_markets[i])

\* Decimal::from(2) / Decimal::ONE_HUNDRED
FeeRate == DecDiv(D(2), D(100))

calculate_max_position(raw_edge, min_edge) ==
    LET edge_ratio == DecDiv(raw_edge, min_edge)
        base_max == D(config.max_arb_size)
    IN  IF edge_ratio > DecOne
        THEN DecMul(base_max, Min2(edge_ratio, D(2)))
        ELSE DecMul(base_max, edge_ratio)

\* variant of EdgeTooSmall: only a negative edge is dropped
EdgeTooSmall_Negative(total_edge) == total_edge < 0

\* total_edge < config.trading.min_edge: the opportunity is dropped
EdgeTooSmall(total_edge) == total_edge < config.min_edge

RECURSIVE AskPriceSum(_)
AskPriceSum(best_asks) ==
    IF best_asks = <<>> THEN 0 ELSE Head(best_asks).price + AskPriceSum(Tail(best_asks))

RECURSIVE AskSizeMin(_)
AskSizeMin(best_asks) ==
    IF best_asks = <<>> THEN 0
    ELSE IF Len(best_asks) = 1 THEN Head(best_asks).size
    ELSE Min2(Head(best_asks).size, AskSizeMin(Tail(best_asks)))

detect_binary_arbitrage(market_id, best_asks) ==
    IF Len(best_asks) # 2 THEN None
    ELSE
    LET yes == best_asks[1]
        no  == best_asks[2]
        min_liquidity == Min2(yes.size, no.size)
        sum_prices == yes.price + no.price
        raw_edge == DecOne - sum_prices
        max_position_by_edge == calculate_max_position(raw_edge, config.min_edge)
        position_size ==
            Min2(Min2(max_position_by_edge, min_liquidity), D(config.max_arb_size))
        expected_cost == DecMul(position_size, sum_prices)
        expected_payout == DecMul(position_size, DecOne)
        fee_cost == DecMul(expected_payout, FeeRate)
        net_profit == expected_payout - expected_cost - fee_cost
        total_edge == DecDiv(net_profit, position_size)
    IN  IF min_liquidity < D(config.min_liquidity) THEN None
        ELSE IF sum_prices >= DecOne THEN None
        ELSE IF position_size < D(config.min_liquidity) THEN None
        ELSE IF net_profit <= 0 THEN None
        ELSE IF EdgeTooSmall(total_edge) THEN None
        ELSE IF is_market_blacklisted(market_id) THEN None
        ELSE Some([market_id |-> market_id, arb_type |-> "Binary",
                   edges |-> <<[asset_id |-> yes.asset_id, outcome |-> "YES",
                                price |-> yes.price, size |-> position_size,
                                expected_cost |-> DecMul(position_size, yes.price)],
                               [asset_id |-> no.asset_id, outcome |-> "NO",
                                price |-> no.price, size |-> position_size,
                                expected_cost |-> DecMul(position_size, no.price)]>>,
                   total_edge |-> total_edge, min_liquidity |-> min_liquidity,
                   position_size |-> position_size,
                   expected_profit_usd |-> net_profit + fee_cost,
                   fee_cost |-> fee_cost, net_profit |-> net_profit])

\* format!("Outcome_{}", i), i counted from 0
OutcomeLabel(i) ==
    CASE i = 0 -> "Outcome_0" [] i = 1 -> "Outcome_1" [] i = 2 -> "Outcome_2"
      [] OTHER -> "Outcome_n"

detect_multi_outcome_arbitrage(market_id, best_asks) ==
    IF Len(best_asks) < 2 THEN None
    ELSE
    LET n == Len(best_asks)
        sum_prices == AskPriceSum(best_asks)
        min_liquidity == AskSizeMin(best_asks)
        raw_edge == DecOne - sum_prices
        max_position_by_edge == calculate_max_position(raw_edge, config.min_edge)
        max_position_by_liquidity == DecMul(min_liquidity, D(n))
        position_size ==
            Min2(Min2(max_position_by_edge, max_position_by_liquidity),
                 D(config.max_arb_size))
        per_outcome_position == DecDiv(position_size, D(n))
        expected_cost == DecMul(position_size, sum_prices)
        expected_payout == DecMul(position_size, DecOne)
        fee_cost == DecMul(expected_payout, FeeRate)
        net_profit == expected_payout - expected_cost - fee_cost
        total_edge == DecDiv(net_profit, position_size)
    IN  IF sum_prices >= DecOne THEN None
        ELSE IF min_liquidity < D(config.min_liquidity) THEN None
        ELSE IF position_size < D(config.min_liquidity) THEN None
        ELSE IF net_profit <= 0 THEN None
        ELSE IF total_edge < config.min_edge THEN None
        ELSE IF is_market_blacklisted(market_id) THEN None
        ELSE Some([market_id |-> market_id, arb_type |-> "MultiOutcome",
                   edges |-> [i \in 1..n |->
                                [asset_id |-> best_asks[i].asset_id,
                                 outcome |-> OutcomeLabel(i - 1),
                                 price |-> best_asks[i].price,
                                 size |-> per_outcome_position,
                                 expected_cost |->
                                     DecMul(per_outcome_position, best_asks[i].price)]],
                   total_edge |-> total_edge, min_liquidity |-> min_liquidity,
                   position_size |-> position_size,
                   expected_profit_usd |-> net_profit + fee_cost,
                   fee_cost |-> fee_cost, net_profit |-> net_profit])

\* what detect_arbitrage returns for a market the store holds
DetectResult(market_id) ==
    LET market_books_ == market_books[market_id]
        best_asks == get_best_asks_for_market(market_id)
    IN  IF best_asks = <<>> THEN None
        ELSE IF is_binary(market_books_)
             THEN detect_binary_arbitrage(market_id, best_asks)
             ELSE detect_multi_outcome_arbitrage(market_id, best_asks)

\* ArbEngine::detect_arbitrage: Err("Market not found") for an unknown market
detect_arbitrage(market_id) ==
    /\ last' = IF market_id \in DOMAIN market_books
               THEN [kind |-> "detect", market_id |-> market_id, found |-> TRUE,
                     result |-> DetectResult(market_id)]
               ELSE [kind |-> "detect", market_id |-> market_id, found |-> FALSE,
                     result |-> None]
    /\ UNCHANGED <<now, config, riskVars, market_books, scannerVars, sessionVars>>

\* quality scores are held in units of 1/QualityUnit: a Decimal d (DecScale units
\* per 1) times a weight w/10 is d * w * (QualityUnit / (10 * DecScale))
QualityUnit == 10000000

\* ArbitrageOpportunity::calculate_quality_score, in 1/QualityUnit:
\*   0.4 * min(total_edge * 100, 10)   = min(400000 * total_edge, 4 * QualityUnit)
\*   0.3 * min(min_liquidity / 1000, 10) = min(3 * min_liquidity, 3 * QualityUnit)
\*   0.2 * min(position_size / 500, 10)  = min(4 * position_size, 2 * QualityUnit)
\*   0.1 * min(net_profit / 50, 10)      = min(20 * net_profit, QualityUnit)
calculate_quality_score(arb_op) ==
    Min2(400000 * arb_op.total_edge, 4 * QualityUnit)
        + Min2(3 * arb_op.min_liquidity, 3 * QualityUnit)
        + Min2(4 * arb_op.position_size, 2 * QualityUnit)
        + Min2(20 * arb_op.net_profit, QualityUnit)

\* variant of should_execute_opportunity: every opportunity is executed
should_execute_opportunity_Always(arb_op) == TRUE

\* ArbEngine::should_execute_opportunity: quality_score < 5.0 is skipped
should_execute_opportunity(arb_op) ==
    ~(calculate_quality_score(arb_op) < 5 * QualityUnit)

-----------------------------------------------------------------------------
(* Short-window detector: src/src/arb_engine/mod.rs, src/src/gamma_api/mod.rs *)
(*                                                                         *)
(* A catalog market carries its id, its question and slug and its end_date  *)
(* as the instant it parses to (None when it is missing or does not parse). *)
(* markets_config is the [markets] part of the configuration.  The counter  *)
(* `detections` is written and read by no decision; it is left out.         *)

MsPerMinute == 60 * MsPerSecond

\* chrono Duration::num_minutes: whole minutes, truncated toward zero
NumMinutes(ms) ==
    IF ms >= 0 THEN ms \div MsPerMinute ELSE 0 - ((0 - ms) \div MsPerMinute)

\* UP_DOWN_PATTERNS.is_match on the lower-cased texts of the runs
UpDownMatch(text) ==
    CASE text = "bitcoin up or down at 12:15?" -> TRUE
      [] text = "btc-updown-1215"              -> TRUE
      [] text = "who wins the final?"          -> FALSE
      [] text = "final-winner"                 -> FALSE
      [] OTHER                                 -> FALSE

\* Market::analyze_short_window
analyze_short_window(market, markets_config) ==
    LET minutes_to_expiry ==
            IF IsSome(market.end_date)
            THEN Some(NumMinutes(Unwrap(market.end_date) - now)) ELSE None
        in_short_window ==
            /\ IsSome(minutes_to_expiry)
            /\ Unwrap(minutes_to_expiry) > markets_config.min_minutes_to_expiry
            /\ Unwrap(minutes_to_expiry) <= markets_config.short_window_minutes
        matches_pattern == UpDownMatch(market.question) \/ UpDownMatch(market.slug)
    IN  [is_short_window |-> /\ markets_config.enable_short_window_markets
                             /\ in_short_window
                             /\ matches_pattern,
         minutes_to_expiry |-> minutes_to_expiry,
         matches_pattern |-> matches_pattern]

\* ArbEngine::detect_short_window_arbitrage once the best asks are read
detect_short_window_arbitrage(market, markets_config, best_asks) ==
    LET short_window_info == analyze_short_window(market, markets_config)
        minutes_to_expiry ==
            IF IsSome(short_window_info.minutes_to_expiry)
            THEN Unwrap(short_window_info.minutes_to_expiry) ELSE 0
    IN  IF ~short_window_info.is_short_window THEN None
        ELSE IF minutes_to_expiry < markets_config.min_minutes_to_expiry THEN None
        ELSE IF Len(best_asks) # 2 THEN None
        ELSE
        LET yes == best_asks[1]
            no  == best_asks[2]
            sum_prices == yes.price + no.price
            raw_edge == DecOne - sum_prices
            net_edge == raw_edge - FeeRate
            min_liquidity == Min2(yes.size, no.size)
            position_size == Min2(min_liquidity, D(config.short_window_max_size))
        IN  IF sum_prices >= DecOne THEN None
            ELSE IF net_edge < config.short_window_min_edge THEN None
            ELSE IF min_liquidity < D(config.min_liquidity) THEN None
            ELSE IF is_market_blacklisted(market.market) THEN None
            ELSE Some([market_id |-> market.market,
                       minutes_to_expiry |-> minutes_to_expiry,
                       yes_price |-> yes.price, no_price |-> no.price,
                       sum_prices |-> sum_prices, raw_edge |-> raw_edge,
                       net_edge |-> net_edge, position_size |-> position_size,
                       expected_profit |-> DecMul(position_size, net_edge),
                       yes_asset_id |-> yes.asset_id, no_asset_id |-> no.asset_id,
                       min_liquidity |-> min_liquidity, detected_at |-> now])

\* one call of detect_short_window_arbitrage; for a short-window market the store
\* does not hold, get_best_asks_for_market fails and the call returns Err
short_window_detect(market, markets_config) ==
    /\ last' =
          IF market.market \in DOMAIN market_books
          THEN [kind |-> "short_window", market |-> market, found |-> TRUE,
                best_asks |-> get_best_asks_for_market(market.market),
                result |-> detect_short_window_arbitrage(
                               market, markets_config,
                               get_best_asks_for_market(market.market))]
          ELSE [kind |-> "short_window", market |-> market, found |-> FALSE,
                best_asks |-> <<>>,
                result |-> detect_short_window_arbitrage(market, markets_config, <<>>)]
    /\ UNCHANGED <<now, config, riskVars, market_books, scannerVars, sessionVars>>

-----------------------------------------------------------------------------
(* Cross-market scanner: src/src/parallel_scanner/mod.rs                    *)
(*                                                                         *)
(* A catalog entry is a gamma_api Market: its id (`market`), the id of its  *)
(* first event (`event_id`, an Option) and its question.  A question is     *)
(* held as what detect_correlation reads from its text: the price target    *)
(* extract_price_target finds (an Option), whether it contains a "reach" /  *)
(* "dip" / parent / child keyword, and its set of significant words.        *)
(* ScannerStats and the relationship cache are written but read by no       *)
(* decision and are left out.                                               *)

\* find_common_significant_words
find_common_significant_words(q_a, q_b) == Cardinality(q_a.words \cap q_b.words)

Correlation(a, b, type, strength) ==
    [market_a |-> a.market, market_b |-> b.market, correlation_type |-> type,
     strength |-> strength]

\* variant of detect_correlation: markets sharing three words are taken as opposite
detect_correlation_Opposite(market_a, market_b) ==
    LET q_a == market_a.question
        q_b == market_b.question
        both_priced == IsSome(q_a.price) /\ IsSome(q_b.price)
        pa == Unwrap(q_a.price)
        pb == Unwrap(q_b.price)
        a_is_parent == q_a.parent_kw /\ ~q_a.child_kw
        b_is_child == q_b.child_kw
    IN  IF both_priced /\ q_a.reach /\ q_b.reach /\ pa # pb
        THEN IF pa < pb
             THEN Some(Correlation(market_a, market_b, "Parent", 950))
             ELSE Some(Correlation(market_b, market_a, "Parent", 950))
        ELSE IF both_priced /\ q_a.dip /\ q_b.dip /\ pa # pb
        THEN IF pa > pb
             THEN Some(Correlation(market_a, market_b, "Parent", 950))
             ELSE Some(Correlation(market_b, market_a, "Parent", 950))
        ELSE IF a_is_parent /\ b_is_child
                /\ find_common_significant_words(q_a, q_b) >= 2
        THEN Some(Correlation(market_a, market_b, "Parent", 800))
        ELSE IF find_common_significant_words(q_a, q_b) >= 3
        THEN Some(Correlation(market_a, market_b, "Opposite", 600))
        ELSE None

\* ParallelScanner::detect_correlation: Some(MarketCorrelation) or None
detect_correlation(market_a, market_b) ==
    LET q_a == market_a.question
        q_b == market_b.question
        both_priced == IsSome(q_a.price) /\ IsSome(q_b.price)
        pa == Unwrap(q_a.price)
        pb == Unwrap(q_b.price)
        a_is_parent == q_a.parent_kw /\ ~q_a.child_kw
        b_is_child == q_b.child_kw
    IN  IF both_priced /\ q_a.reach /\ q_b.reach /\ pa # pb
        THEN IF pa < pb
             THEN Some(Correlation(market_a, market_b, "Parent", 950))
             ELSE Some(Correlation(market_b, market_a, "Parent", 950))
        ELSE IF both_priced /\ q_a.dip /\ q_b.dip /\ pa # pb
        THEN IF pa > pb
             THEN Some(Correlation(market_a, market_b, "Parent", 950))
             ELSE Some(Correlation(market_b, market_a, "Parent", 950))
        ELSE IF a_is_parent /\ b_is_child
                /\ find_common_significant_words(q_a, q_b) >= 2
        THEN Some(Correlation(market_a, market_b, "Parent", 800))
        ELSE IF find_common_significant_words(q_a, q_b) >= 3
        THEN Some(Correlation(market_a, market_b, "Sibling", 600))
        ELSE None

\* the catalog entries of one event, in catalog order
EventGroup(catalog, event_id) ==
    SelectSeq(catalog, LAMBDA m : m.event_id = Some(event_id))

\* the pairs i < j of one group, in the order of the two nested loops
RECURSIVE GroupCorrelations(_, _, _)
GroupCorrelations(group, i, j) ==
    IF i > Len(group) THEN <<>>
    ELSE IF j > Len(group) THEN GroupCorrelations(group, i + 1, i + 2)
    ELSE detect_correlation(group[i], group[j])
         \o GroupCorrelations(group, i, j + 1)

\* the correlations of the events taken in the order `events`
RECURSIVE CorrelationsOf(_, _)
CorrelationsOf(catalog, events) ==
    IF events = <<>> THEN <<>>
    ELSE GroupCorrelations(EventGroup(catalog, Head(events)), 1, 2)
         \o CorrelationsOf(catalog, Tail(events))

\* the orders in which a HashMap over the catalog's event ids can be walked
EventOrders(catalog) ==
    LET ids == {Unwrap(catalog[i].event_id) :
                   i \in {k \in 1..Len(catalog) : IsSome(catalog[k].event_id)}}
    IN  {s \in [1..Cardinality(ids) -> ids] :
            \A x, y \in DOMAIN s : x # y => s[x] # s[y]}

\* ParallelScanner::build_correlation_graph
build_correlation_graph ==
    /\ \E events \in EventOrders(markets) :
           correlations' = CorrelationsOf(markets, events)
    /\ last' = [kind |-> "build_correlation_graph"]
    /\ UNCHANGED <<now, config, riskVars, market_books, markets, sessionVars>>

\* `profit > dec!(0.50)`: the least profit worth emitting
ProfitWorthwhile_Inclusive(profit) == 2 * profit >= DecOne

ProfitWorthwhile(profit) == 2 * profit > DecOne

\* the body shared by the Parent and Opposite arms, given the cost to lock
CrossOpportunity(market_a_id, market_b_id, arb_type, cost, confidence) ==
    LET edge == DecOne - cost
        position == D(config.max_arb_size)
        fee == DecMul(position, 20)
        profit == DecMul(position, edge) - fee
    IN  IF cost < 980 /\ ProfitWorthwhile(profit)
        THEN Some([market_a_id |-> market_a_id, market_b_id |-> market_b_id,
                   arb_type |-> arb_type, edge |-> edge,
                   position_size |-> position, expected_profit |-> profit,
                   confidence |-> confidence])
        ELSE None

\* ParallelScanner::check_cross_market_opportunity: the "YES" quotes are those of
\* the first book of each market
check_cross_market_opportunity(market_a_id, market_b_id, correlation_type) ==
    IF market_a_id \notin DOMAIN market_books
       \/ market_b_id \notin DOMAIN market_books
    THEN None
    ELSE
    LET books_a == market_books[market_a_id].books
        books_b == market_books[market_b_id].books
    IN  IF books_a = <<>> \/ books_b = <<>> THEN None
        ELSE IF best_ask(books_a[1]) = None \/ best_ask(books_b[1]) = None
                \/ best_bid(books_a[1]) = None \/ best_bid(books_b[1]) = None
        THEN None
        ELSE
        LET yes_ask_a == Unwrap(best_ask(books_a[1]))[1]
            yes_ask_b == Unwrap(best_ask(books_b[1]))[1]
            yes_bid_b == Unwrap(best_bid(books_b[1]))[1]
        IN  IF yes_ask_a <= 10 \/ yes_ask_a >= 990
               \/ yes_ask_b <= 10 \/ yes_ask_b >= 990
            THEN None
            ELSE IF correlation_type = "Parent"
            THEN CrossOpportunity(market_a_id, market_b_id, "LogicalImplication",
                                  yes_ask_a + (DecOne - yes_bid_b), 800)
            ELSE IF correlation_type = "Opposite"
            THEN CrossOpportunity(market_a_id, market_b_id, "MutualExclusion",
                                  yes_ask_a + yes_ask_b, 900)
            ELSE None

\* the opportunities of the correlations from index i on that pass `edge >= min_edge`
RECURSIVE CrossCandidates(_)
CrossCandidates(i) ==
    IF i > Len(correlations) THEN <<>>
    ELSE LET corr == correlations[i]
             opp == check_cross_market_opportunity(corr.market_a, corr.market_b,
                                                   corr.correlation_type)
         IN  (IF IsSome(opp) /\ Unwrap(opp).edge >= config.min_edge
              THEN opp ELSE <<>>)
             \o CrossCandidates(i + 1)

\* sort_by(|a, b| b.expected_profit.cmp(&a.expected_profit)): stable, descending
RECURSIVE InsertByProfit(_, _)
InsertByProfit(sorted, opp) ==
    IF sorted = <<>> THEN <<opp>>
    ELSE IF Head(sorted).expected_profit >= opp.expected_profit
    THEN <<Head(sorted)>> \o InsertByProfit(Tail(sorted), opp)
    ELSE <<opp>> \o sorted

RECURSIVE SortByProfit(_)
SortByProfit(opps) ==
    IF opps = <<>> THEN <<>>
    ELSE InsertByProfit(SortByProfit(SubSeq(opps, 1, Len(opps) - 1)),
                        opps[Len(opps)])

\* ParallelScanner::scan_cross_market_parallel
scan_cross_market_parallel ==
    /\ last' = [kind |-> "scan_cross_market",
                result |-> IF correlations = <<>> THEN <<>>
                           ELSE SortByProfit(CrossCandidates(1))]
    /\ UNCHANGED <<now, config, riskVars, market_books, scannerVars, sessionVars>>

\* `dec!(0.98)`: the sum of asks below which the scan sees a profit after the fee
fee_adjusted_threshold == 980

\* ParallelScanner::scan_market_for_multi_outcome, given the best asks the
\* store returned for the market: Some(MultiOutcomeOpportunity) or None
MultiOutcomeScanOf(market, best_asks) ==
    LET total_price == AskPriceSum(best_asks)
        min_liquidity == AskSizeMin(best_asks)
        edge == fee_adjusted_threshold - total_price
        position_size == Min2(min_liquidity, D(config.max_arb_size))
    IN  IF Len(best_asks) < 3 THEN None
        ELSE IF edge < config.min_edge THEN None
        ELSE IF min_liquidity < D(config.min_liquidity) THEN None
        ELSE Some([market_id |-> market.market, num_outcomes |-> Len(best_asks),
                   total_price |-> total_price, edge |-> edge,
                   min_liquidity |-> min_liquidity,
                   position_size |-> position_size,
                   expected_profit |-> DecMul(position_size, edge)])

\* ParallelScanner::scan_market_for_multi_outcome
scan_market_for_multi_outcome(market) ==
    IF market.market \notin DOMAIN market_books THEN None
    ELSE IF get_best_asks_for_market(market.market) = <<>> THEN None
    ELSE MultiOutcomeScanOf(market, get_best_asks_for_market(market.market))

\* the opportunities of the catalog's markets of three outcomes or more, in
\* catalog order
RECURSIVE MultiOutcomeCandidates(_)
MultiOutcomeCandidates(i) ==
    IF i > Len(markets) THEN <<>>
    ELSE (IF Len(markets[i].outcomes) >= 3
             /\ IsSome(scan_market_for_multi_outcome(markets[i]))
          THEN <<Unwrap(scan_market_for_multi_outcome(markets[i]))>>
          ELSE <<>>) \o MultiOutcomeCandidates(i + 1)

\* ParallelScanner::scan_multi_outcome_parallel
scan_multi_outcome_parallel ==
    /\ last' = [kind |-> "scan_multi_outcome",
                result |-> SortByProfit(MultiOutcomeCandidates(1))]
    /\ UNCHANGED <<now, config, riskVars, market_books, scannerVars, sessionVars>>

-----------------------------------------------------------------------------
(* Short-window trade tracker: src/src/arb_engine/mod.rs                    *)
(*                                                                         *)
(* Trade ids are fresh UUIDs: the n-th trade entered gets id n.              *)

\* ShortWindowArbTracker::new
NewTracker(initial_balance) ==
    [trades |-> <<>>, total_pnl |-> 0, trades_entered |-> 0, trades_won |-> 0,
     trades_lost |-> 0, total_capital_deployed |-> 0, win_rate |-> 0,
     avg_profit |-> 0, simulated_balance |-> initial_balance,
     initial_balance |-> initial_balance]

\* the tracker after simulate_entry(opp)
EnteredTracker(t, opp) ==
    LET entry_cost == DecMul(opp.position_size, opp.sum_prices)
        trade == [id |-> t.trades_entered + 1, market_id |-> opp.market_id,
                  entry_time |-> UtcTimestamp,
                  expected_resolution_time |->
                      UtcTimestamp + opp.minutes_to_expiry * 60,
                  minutes_to_expiry |-> opp.minutes_to_expiry,
                  yes_price |-> opp.yes_price, no_price |-> opp.no_price,
                  sum_prices |-> opp.sum_prices,
                  position_size |-> opp.position_size, entry_cost |-> entry_cost,
                  expected_profit |-> opp.expected_profit, status |-> "Open",
                  actual_profit |-> None, resolution_time |-> None]
    IN  [t EXCEPT !.simulated_balance = @ - entry_cost,
                  !.total_capital_deployed = @ + entry_cost,
                  !.trades_entered = @ + 1,
                  !.trades = Append(@, trade)]

\* ShortWindowArbTracker::update_stats
update_stats(t) ==
    LET total_resolved == t.trades_won + t.trades_lost
    IN  IF total_resolved > 0
        THEN [t EXCEPT !.win_rate = DecDiv(D(t.trades_won), D(total_resolved)),
                       !.avg_profit = DecDiv(t.total_pnl, D(total_resolved))]
        ELSE t

\* the tracker after simulate_resolution(trade_id, won): the first trade of that
\* id is resolved, whatever its status
ResolvedTracker(t, trade_id, won) ==
    LET hits == {i \in 1..Len(t.trades) : t.trades[i].id = trade_id}
    IN  IF hits = {} THEN t
        ELSE LET i == CHOOSE h \in hits : \A g \in hits : h <= g
                 trade == t.trades[i]
                 profit == trade.position_size - trade.entry_cost
             IN  update_stats(
                   IF won
                   THEN [t EXCEPT
                           !.trades[i] =
                               [trade EXCEPT !.resolution_time = Some(UtcTimestamp),
                                             !.status = "ResolvedProfit",
                                             !.actual_profit = Some(profit)],
                           !.simulated_balance = @ + trade.position_size,
                           !.total_pnl = @ + profit,
                           !.trades_won = @ + 1]
                   ELSE [t EXCEPT
                           !.trades[i] =
                               [trade EXCEPT !.resolution_time = Some(UtcTimestamp),
                                             !.status = "ResolvedLoss",
                                             !.actual_profit = Some(0 - trade.entry_cost)],
                           !.total_pnl = @ - trade.entry_cost,
                           !.trades_lost = @ + 1])

\* the ids of the open trades past their expected resolution time, in log order
RECURSIVE ExpiredIds(_)
ExpiredIds(log) ==
    IF log = <<>> THEN <<>>
    ELSE (IF Head(log).status = "Open"
             /\ UtcTimestamp > Head(log).expected_resolution_time
          THEN <<Head(log).id>> ELSE <<>>) \o ExpiredIds(Tail(log))

\* `for trade_id in expired_ids { self.simulate_resolution(&trade_id, true) }`
RECURSIVE ResolveAll(_, _)
ResolveAll(t, ids) ==
    IF ids = <<>> THEN t
    ELSE ResolveAll(ResolvedTracker(t, Head(ids), TRUE), Tail(ids))

\* ShortWindowArbTracker::simulate_entry
simulate_entry(opp) ==
    /\ tracker' = EnteredTracker(tracker, opp)
    /\ last' = [kind |-> "simulate_entry", before |-> tracker]
    /\ UNCHANGED <<now, config, riskVars, market_books, scannerVars,
                   simulated_balance, trades, sim_calls, liveVars, wsVars>>

\* ShortWindowArbTracker::simulate_resolution
simulate_resolution(trade_id, won) ==
    /\ tracker' = ResolvedTracker(tracker, trade_id, won)
    /\ last' = [kind |-> "simulate_resolution", trade_id |-> trade_id,
                won |-> won, before |-> tracker]
    /\ UNCHANGED <<now, config, riskVars, market_books, scannerVars,
                   simulated_balance, trades, sim_calls, liveVars, wsVars>>

\* ShortWindowArbTracker::auto_resolve_expired
auto_resolve_expired ==
    /\ tracker' = ResolveAll(tracker, ExpiredIds(tracker.trades))
    /\ last' = [kind |-> "auto_resolve_expired", before |-> tracker]
    /\ UNCHANGED <<now, config, riskVars, market_books, scannerVars,
                   simulated_balance, trades, sim_calls, liveVars, wsVars>>

-----------------------------------------------------------------------------
(* Live executor: src/src/executor/mod.rs                                   *)
(*                                                                         *)
(* The executor holds the config, the CLOB client and the signer, and no    *)
(* handle on the order-book store: the order book it could read again is    *)
(* the exchange's.  `fresh_asks` is what such a read would return at the     *)
(* time of the call (asset_id -> best ask), `built` whether building and     *)
(* signing the orders succeeds, `posted[i]` whether the exchange accepts     *)
(* order i.  cancel_open_orders acts on the exchange only.                   *)

\* OrderExecutor::validate_prices: logs each edge and returns Ok(true)
validate_prices(arb_op, fresh_asks) == TRUE

\* OrderExecutor::create_signed_orders: one GTC buy per edge, at the edge's price
create_signed_orders(arb_op) ==
    [i \in 1..Len(arb_op.edges) |->
        [asset_id |-> arb_op.edges[i].asset_id, price |-> arb_op.edges[i].price,
         size |-> arb_op.edges[i].size,
         order_hash |-> <<"hash", arb_op.edges[i].asset_id>>]]

\* OrderExecutor::submit_orders_parallel / submit_single_order
submit_orders_parallel(signed_orders, posted) ==
    [i \in 1..Len(signed_orders) |->
        [asset_id |-> signed_orders[i].asset_id, success |-> posted[i],
         order_id |-> IF posted[i] THEN Some(signed_orders[i].order_hash) ELSE None]]

\* the first element of a sequence that satisfies Test, as an Option
FindFirst(seq, Test(_)) ==
    LET hits == SelectSeq(seq, Test) IN IF hits = <<>> THEN None ELSE Some(Head(hits))

\* variant of PartialFill: any accepted order makes the fill partial
PartialFill_AnySuccess(success_count, all_filled) == success_count > 0

\* `success_count > 0 && !all_filled`
PartialFill(success_count, all_filled) == success_count > 0 /\ ~all_filled

\* the ExecutionResult built from the submission results
ExecutionResultOf(arb_op, signed_orders, submission_results) ==
    LET n == Len(submission_results)
        success_count == Cardinality({i \in 1..n : submission_results[i].success})
        filled_count ==
            Cardinality({i \in 1..n : submission_results[i].success
                                      /\ IsSome(submission_results[i].order_id)})
        CostOf(r) ==
            LET e == FindFirst(arb_op.edges, LAMBDA x : x.asset_id = r.asset_id)
            IN  IF IsSome(e) THEN Unwrap(e).expected_cost ELSE 0
        FilledOf(edge) ==
            LET r == FindFirst(submission_results,
                               LAMBDA x : x.asset_id = edge.asset_id /\ x.success)
            IN  IF IsSome(r) /\ IsSome(Unwrap(r).order_id) THEN edge.size ELSE 0
        all_success == success_count = Len(signed_orders)
        all_filled == filled_count = Len(signed_orders)
    IN  [success |-> all_success, filled |-> all_filled,
         partial_fill |-> PartialFill(success_count, all_filled),
         filled_amount |-> SeqSum([i \in 1..Len(arb_op.edges) |->
                                      FilledOf(arb_op.edges[i])]),
         total_cost |-> SeqSum([i \in 1..n |->
                                   IF submission_results[i].success
                                   THEN CostOf(submission_results[i]) ELSE 0]),
         orders |-> submission_results]

\* the ExecutionResult of an aborted execution
SlippageAbort ==
    [success |-> FALSE, filled |-> FALSE, partial_fill |-> FALSE,
     filled_amount |-> 0, total_cost |-> 0, orders |-> <<>>]

\* OrderExecutor::execute_arbitrage: Ok(ExecutionResult) as Some, Err as None
execute_arbitrage(arb_op, fresh_asks, built, posted) ==
    /\ last' = [kind |-> "execute_arbitrage", op |-> arb_op,
                fresh_asks |-> fresh_asks,
                result |->
                    IF ~validate_prices(arb_op, fresh_asks) THEN Some(SlippageAbort)
                    ELSE IF ~built THEN None
                    ELSE Some(ExecutionResultOf(arb_op, create_signed_orders(arb_op),
                              submit_orders_parallel(create_signed_orders(arb_op),
                                                     posted)))]
    /\ UNCHANGED <<now, config, riskVars, market_books, scannerVars, sessionVars>>

\* execute_arbitrage up to its linger: the orders are built, signed and
\* submitted; with at least one accepted the call sleeps 200 ms, else it returns
execute_arbitrage_submit(arb_op, built, posted) ==
    /\ running
    /\ live_stage.stage = "idle"
    /\ cancel_alls' = 0
    /\ IF built /\ \E i \in DOMAIN posted : posted[i]
       THEN /\ live_stage' = [stage |-> "linger", op |-> arb_op, posted |-> posted]
            /\ last' = [kind |-> "execute_arbitrage_submit", op |-> arb_op]
       ELSE /\ UNCHANGED live_stage
            /\ last' = [kind |-> "execute_arbitrage", op |-> arb_op,
                        result |-> IF ~built THEN None
                                   ELSE Some(ExecutionResultOf(arb_op,
                                            create_signed_orders(arb_op),
                                            submit_orders_parallel(
                                                create_signed_orders(arb_op), posted)))]
    /\ UNCHANGED <<now, config, riskVars, market_books, scannerVars, simVars,
                   running, wsVars>>

\* execute_arbitrage after its linger: cancel_open_orders sends the cancel-all
\* (an Err of it is logged) and the result is returned
execute_arbitrage_cancel(cancel_ok) ==
    /\ running
    /\ live_stage.stage = "linger"
    /\ cancel_alls' = cancel_alls + 1
    /\ live_stage' = [stage |-> "idle"]
    /\ last' = [kind |-> "execute_arbitrage", op |-> live_stage.op,
                cancel_ok |-> cancel_ok,
                result |-> Some(ExecutionResultOf(live_stage.op,
                              create_signed_orders(live_stage.op),
                              submit_orders_parallel(
                                  create_signed_orders(live_stage.op),
                                  live_stage.posted)))]
    /\ UNCHANGED <<now, config, riskVars, market_books, scannerVars, simVars,
                   running, wsVars>>

\* lib.rs::run, the ctrl_c arm of select!: the other arms' futures are dropped
\* where they stand, the final statistics are printed and run returns
ctrl_c ==
    /\ running
    /\ running' = FALSE
    /\ live_stage' = IF live_stage.stage = "linger" THEN [stage |-> "dropped"]
                     ELSE live_stage
    /\ last' = [kind |-> "ctrl_c"]
    /\ UNCHANGED <<now, config, riskVars, market_books, scannerVars, simVars,
                   cancel_alls, wsVars>>

-----------------------------------------------------------------------------
(* Simulation executor: src/src/executor/mod.rs                             *)
(*                                                                         *)
(* simulate_arbitrage works in two lock sections: it takes the write lock   *)
(* of simulated_balance, checks and moves the balance and drops the lock;   *)
(* then it takes the write lock of trades and appends the trade.            *)

\* VecDeque::with_capacity(1000) / `if trades.len() > 1000 { pop_front }`
TradeLogCapacity == 1000

\* arb_op.edges.iter().map(|e| e.expected_cost).sum()
SimTotalCost(arb_op) ==
    SeqSum([i \in 1..Len(arb_op.edges) |-> arb_op.edges[i].expected_cost])

\* variant of InsufficientBalance: a balance equal to the cost is refused too
InsufficientBalance_OrEqual(balance, total_cost) == balance <= total_cost

\* `*balance < total_cost`
InsufficientBalance(balance, total_cost) == balance < total_cost

\* balance -= total_cost; balance += expected_payout; balance -= fee_cost
BalanceAfter(balance, arb_op) ==
    balance - SimTotalCost(arb_op) + arb_op.position_size - arb_op.fee_cost

\* the SimulatedTrade of an accepted opportunity (seq is set when it is logged)
SimulatedTradeOf(arb_op) ==
    [timestamp |-> UtcTimestamp, market_id |-> arb_op.market_id,
     arb_type |-> arb_op.arb_type,
     edges |-> [i \in 1..Len(arb_op.edges) |->
                  [asset_id |-> arb_op.edges[i].asset_id,
                   price |-> arb_op.edges[i].price, size |-> arb_op.edges[i].size,
                   cost |-> arb_op.edges[i].expected_cost]],
     total_cost |-> SimTotalCost(arb_op), expected_payout |-> arb_op.position_size,
     net_profit |-> arb_op.net_profit, seq |-> 0]

\* variant of PushTrade: a full log refuses the new trade
PushTrade_KeepOldest(log, trade) ==
    IF Len(log) >= TradeLogCapacity THEN log
    ELSE log \o <<[trade EXCEPT !.seq = IF log = <<>> THEN 1
                                       ELSE log[Len(log)].seq + 1]>>

\* trades.push_back(trade); if trades.len() > 1000 { trades.pop_front(); }
\* History field seq: the trade's rank among the trades ever logged.
PushTrade(log, trade) ==
    LET pushed == log \o <<[trade EXCEPT !.seq = IF log = <<>> THEN 1
                                                ELSE log[Len(log)].seq + 1]>>
    IN  IF Len(pushed) > TradeLogCapacity THEN Tail(pushed) ELSE pushed

\* the ExecutionResult of a refused simulation
SimRejected ==
    [success |-> FALSE, filled |-> FALSE, partial_fill |-> FALSE,
     filled_amount |-> 0, total_cost |-> 0, orders |-> <<>>]

\* the ExecutionResult of an accepted simulation
SimFilled(arb_op) ==
    [success |-> TRUE, filled |-> TRUE, partial_fill |-> FALSE,
     filled_amount |-> arb_op.position_size, total_cost |-> arb_op.net_profit,
     orders |-> [i \in 1..Len(arb_op.edges) |->
                   [asset_id |-> arb_op.edges[i].asset_id, success |-> TRUE,
                    order_id |-> Some(<<"SIM", arb_op.edges[i].asset_id>>)]]]

\* SimulationExecutor::simulate_arbitrage run by the only task that calls it when
\* no other task touches the executor: both lock sections in one step
simulate_arbitrage(arb_op) ==
    /\ \A c \in DOMAIN sim_calls : sim_calls[c] = None
    /\ IF InsufficientBalance(simulated_balance, SimTotalCost(arb_op))
       THEN /\ UNCHANGED <<simulated_balance, trades>>
            /\ last' = [kind |-> "simulate_arbitrage", op |-> arb_op,
                        result |-> SimRejected]
       ELSE /\ simulated_balance' = BalanceAfter(simulated_balance, arb_op)
            /\ trades' = PushTrade(trades, SimulatedTradeOf(arb_op))
            /\ last' = [kind |-> "simulate_arbitrage", op |-> arb_op,
                        result |-> SimFilled(arb_op)]
    /\ UNCHANGED <<now, config, riskVars, market_books, scannerVars, sim_calls,
                   tracker, liveVars, wsVars>>

\* first lock section of simulate_arbitrage, run by task `caller`
simulate_arbitrage_balance(caller, arb_op) ==
    /\ sim_calls[caller] = None
    /\ IF InsufficientBalance(simulated_balance, SimTotalCost(arb_op))
       THEN /\ UNCHANGED <<simulated_balance, sim_calls>>
            /\ last' = [kind |-> "simulate_arbitrage", op |-> arb_op,
                        result |-> SimRejected]
       ELSE /\ simulated_balance' = BalanceAfter(simulated_balance, arb_op)
            /\ sim_calls' = [sim_calls EXCEPT ![caller] = Some(arb_op)]
            /\ last' = [kind |-> "simulate_arbitrage_balance", op |-> arb_op]
    /\ UNCHANGED <<now, config, riskVars, market_books, scannerVars, trades,
                   tracker, liveVars, wsVars>>

\* second lock section of simulate_arbitrage, run by task `caller`
simulate_arbitrage_log(caller) ==
    /\ IsSome(sim_calls[caller])
    /\ trades' = PushTrade(trades, SimulatedTradeOf(Unwrap(sim_calls[caller])))
    /\ sim_calls' = [sim_calls EXCEPT ![caller] = None]
    /\ last' = [kind |-> "simulate_arbitrage", op |-> Unwrap(sim_calls[caller]),
                result |-> SimFilled(Unwrap(sim_calls[caller]))]
    /\ UNCHANGED <<now, config, riskVars, market_books, scannerVars,
                   simulated_balance, tracker, liveVars, wsVars>>

\* a task reading the executor: get_simulated_balance, then the trade log
read_simulation ==
    /\ last' = [kind |-> "read_simulation", balance |-> simulated_balance,
                trades |-> trades]
    /\ UNCHANGED <<now, config, riskVars, market_books, scannerVars, simVars,
                   liveVars, wsVars>>

-----------------------------------------------------------------------------
(* WebSocket client: src/src/websocket/client.rs                            *)
(*                                                                         *)
(* `connected` tells whether connect_and_run is running; `inbox` holds the  *)
(* decoded messages of the text frame at hand that are not handled yet.  A  *)
(* frame is what the socket delivered: its length and, when serde can       *)
(* decode it, its messages.  Decimals travel as strings.  Ping, Pong and    *)
(* Close frames and socket errors are left out.                             *)

MAX_MESSAGE_SIZE == 1048576

\* str::parse::<Decimal> on the strings the runs send
ParseDecimal(text) ==
    CASE text = "0"    -> Some(0)
      [] text = "0.30" -> Some(300)
      [] text = "0.47" -> Some(470)
      [] text = "200"  -> Some(D(200))
      [] text = "5000" -> Some(D(5000))
      [] OTHER         -> None

\* the levels of a snapshot message: a level whose price does not parse is left
\* out, a size that does not parse counts as zero
RECURSIVE ParseLevels(_)
ParseLevels(levels) ==
    IF levels = <<>> THEN <<>>
    ELSE LET price == ParseDecimal(Head(levels).price)
             size  == ParseDecimal(Head(levels).size)
         IN  (IF IsSome(price)
              THEN <<<<Unwrap(price), IF IsSome(size) THEN Unwrap(size) ELSE 0>>>>
              ELSE <<>>) \o ParseLevels(Tail(levels))

is_book_snapshot(ws_msg) ==
    ws_msg.event_type = "book" \/ IsSome(ws_msg.bids) \/ IsSome(ws_msg.asks)

is_price_change(ws_msg) ==
    ws_msg.event_type = "price_change" \/ IsSome(ws_msg.price_changes)

\* WsMessage::parse_timestamp: the message's own time, else the clock
parse_timestamp(ws_msg) ==
    IF IsSome(ws_msg.timestamp) THEN Unwrap(ws_msg.timestamp) ELSE now

\* the BookSnapshot handle_book_snapshot builds from a message
SnapshotOf(ws_msg) ==
    [asset_id |-> ws_msg.asset_id, market |-> ws_msg.market,
     bids |-> IF IsSome(ws_msg.bids) THEN ParseLevels(Unwrap(ws_msg.bids)) ELSE <<>>,
     asks |-> IF IsSome(ws_msg.asks) THEN ParseLevels(Unwrap(ws_msg.asks)) ELSE <<>>,
     timestamp |-> parse_timestamp(ws_msg),
     hash |-> IF IsSome(ws_msg.hash) THEN Unwrap(ws_msg.hash) ELSE ""]

\* the loop of handle_price_change over the entries of a message: an entry whose
\* price or size does not parse ends the handler with Err, the entries before it
\* stay applied; update_price's Err for an unknown market is logged and skipped
RECURSIVE ApplyPriceChanges(_, _, _)
ApplyPriceChanges(store, market_id, price_changes) ==
    IF price_changes = <<>> THEN [ok |-> TRUE, store |-> store]
    ELSE LET change == Head(price_changes)
             price  == ParseDecimal(change.price)
             size   == ParseDecimal(change.size)
         IN  IF price = None \/ size = None THEN [ok |-> FALSE, store |-> store]
             ELSE ApplyPriceChanges(
                      PriceUpdatedStore(store, market_id, change.asset_id,
                                        Unwrap(price), Unwrap(size), change.side),
                      market_id, Tail(price_changes))

\* the store after the handler's updates, and whether they ended without Err
HandledStore(ws_msg) ==
    IF is_book_snapshot(ws_msg)
    THEN [ok |-> TRUE,
          store |-> UpdatedStore(ws_msg.market, ws_msg.asset_id, SnapshotOf(ws_msg))]
    ELSE IF is_price_change(ws_msg) /\ IsSome(ws_msg.price_changes)
    THEN ApplyPriceChanges(market_books, ws_msg.market, Unwrap(ws_msg.price_changes))
    ELSE [ok |-> TRUE, store |-> market_books]

\* the read loop takes the next text frame: an oversize or undecodable frame is
\* logged and skipped, else its messages are handled one by one
read_frame(frame) ==
    /\ connected
    /\ inbox = <<>>
    /\ pending = None
    /\ inbox' = IF frame.length > MAX_MESSAGE_SIZE \/ frame.messages = None
                THEN <<>> ELSE Unwrap(frame.messages)
    /\ last' = [kind |-> "ws_frame", frame |-> frame]
    /\ UNCHANGED <<now, config, riskVars, market_books, scannerVars, simVars,
                   liveVars, connected>>

\* handle_book_snapshot / handle_price_change on the next message of the frame,
\* up to the executor's call: store update, detect_arbitrage on the updated
\* store, should_execute_opportunity, can_execute_arbitrage.  An Err of the
\* handler leaves connect_and_run through `?`: the rest of the frame is dropped
\* and the connection is gone.
handle_message ==
    /\ connected
    /\ inbox # <<>>
    /\ pending = None
    /\ \E ws_msg \in {Head(inbox)} : \E handled \in {HandledStore(ws_msg)} :
         /\ market_books' = handled.store
         /\ UNCHANGED <<now, config, positions, market_exposure, event_exposure,
                        active_arbs, last_cleanup, recorded, scannerVars, simVars,
                        liveVars>>
         /\ IF \/ ~handled.ok
               \/ /\ is_book_snapshot(ws_msg) \/ is_price_change(ws_msg)
                  /\ ws_msg.market \notin DOMAIN handled.store
            THEN /\ connected' = FALSE
                 /\ inbox' = <<>>
                 /\ UNCHANGED <<daily_pnl, pending>>
                 /\ last' = [kind |-> "ws_error", ws_msg |-> ws_msg]
            ELSE /\ connected' = TRUE
                 /\ inbox' = Tail(inbox)
                 /\ \E found \in {IF is_book_snapshot(ws_msg) \/ is_price_change(ws_msg)
                                  THEN DetectResult(ws_msg.market)' ELSE None} :
                      IF IsSome(found) /\ should_execute_opportunity(Unwrap(found))
                      THEN /\ daily_pnl' = RolledDailyPnl
                           /\ pending' = IF GateVerdict(RolledDailyPnl, Unwrap(found))
                                         THEN found ELSE None
                           /\ last' = [kind |-> "ws_message", ws_msg |-> ws_msg,
                                       found |-> found, gated |-> TRUE]
                      ELSE /\ UNCHANGED <<daily_pnl, pending>>
                           /\ last' = [kind |-> "ws_message", ws_msg |-> ws_msg,
                                       found |-> found, gated |-> FALSE]

\* WebSocketClient::run: connect_and_run returned, the loop sleeps and connects again
reconnect ==
    /\ ~connected
    /\ connected' = TRUE
    /\ last' = [kind |-> "ws_reconnect"]
    /\ UNCHANGED <<now, config, riskVars, market_books, scannerVars, simVars,
                   liveVars, inbox>>

-----------------------------------------------------------------------------
(* Inputs of the risk runs.                                                 *)

RiskMarkets == {"m1", "m2"}

AssetsOf(m) ==
    CASE m = "m1" -> <<"a1", "a2">>
      [] m = "m2" -> <<"b1", "b2">>
      [] m = "m3" -> <<"c1", "c2", "c3">>

\* an opportunity of the shape the binary detector emits: two edges of position_size
BinaryOp(m, price_yes, price_no, position_size, min_liquidity) ==
    LET fee == DecMul(position_size, 20)
        net == position_size - DecMul(position_size, price_yes + price_no) - fee
    IN  [market_id |-> m, arb_type |-> "Binary",
         edges |-> <<[asset_id |-> AssetsOf(m)[1], outcome |-> "YES",
                      price |-> price_yes, size |-> position_size,
                      expected_cost |-> DecMul(position_size, price_yes)],
                     [asset_id |-> AssetsOf(m)[2], outcome |-> "NO",
                      price |-> price_no, size |-> position_size,
                      expected_cost |-> DecMul(position_size, price_no)]>>,
         total_edge |-> DecDiv(net, position_size),
         min_liquidity |-> min_liquidity, position_size |-> position_size,
         expected_profit_usd |-> net + fee, fee_cost |-> fee, net_profit |-> net]

RiskOps ==
    {BinaryOp("m1", 470, 480, D(100), D(100)),
     BinaryOp("m1", 470, 480, D(150), D(100)),
     BinaryOp("m1", 470, 480, D(100), D(50)),
     BinaryOp("m2", 470, 480, D(100), D(100))}

\* ExecutionResult: all orders filled, some accepted, none
ExecResults ==
    {[success |-> TRUE,  filled |-> TRUE,  partial_fill |-> FALSE, total_cost |-> D(3)],
     [success |-> FALSE, filled |-> FALSE, partial_fill |-> TRUE,  total_cost |-> D(1)],
     [success |-> FALSE, filled |-> FALSE, partial_fill |-> FALSE, total_cost |-> 0]}

RiskConfigs ==
    {[max_concurrent_arbs |-> 2, daily_loss_limit |-> l,
      max_exposure_per_market |-> 300, inventory_drift_threshold |-> D(450),
      min_liquidity |-> 100, position_timeout_seconds |-> SecondsPerDay,
      min_edge |-> 25, max_arb_size |-> 100, bankroll |-> 1000,
      blacklisted_markets |-> <<>>, slippage_tolerance |-> 10] : l \in {0, 50}}

\* RiskManager::new and OrderBookManager::new
InitComponents ==
    /\ positions = EmptyMap
    /\ market_exposure = EmptyMap
    /\ event_exposure = EmptyMap
    /\ daily_pnl = NewDailyPnl(Today)
    /\ active_arbs = 0
    /\ last_cleanup = UtcTimestamp
    /\ pending = None
    /\ recorded = 0
    /\ market_books = EmptyMap
    /\ last = [kind |-> "init"]

\* ParallelScanner::new(config, markets): no correlation until the graph is built
InitScanner(catalog) ==
    /\ markets = catalog
    /\ correlations = <<>>

\* the tasks that may call into the simulation executor
SimCallers == {"t1", "t2"}

\* SimulationExecutor::new
InitSim ==
    /\ simulated_balance = D(config.bankroll)
    /\ trades = <<>>
    /\ sim_calls = [c \in SimCallers |-> None]
    /\ tracker = NewTracker(D(config.bankroll))

\* no execution in flight, no interrupt received
InitLive ==
    /\ live_stage = [stage |-> "idle"]
    /\ cancel_alls = 0
    /\ running = TRUE

\* connect_and_run has connected and subscribed; no frame read yet
InitWs ==
    /\ inbox = <<>>
    /\ connected = TRUE

InitSession == InitSim /\ InitLive /\ InitWs

InitRisk ==
    /\ now = 0
    /\ config \in RiskConfigs
    /\ InitComponents
    /\ InitScanner(<<>>)
    /\ InitSession

RiskGate == \E arb_op \in RiskOps : ExecuteGate(arb_op)

RiskRecord == \E result \in ExecResults : ExecuteRecord(result)

RiskError == ExecuteError

\* the clock's step in the risk runs (ms): half a day
RiskTickMs == (SecondsPerDay * MsPerSecond) \div 2

RiskTick == now + RiskTickMs <= MaxRiskTicks * RiskTickMs /\ Tick(RiskTickMs)

NextRisk == RiskGate \/ RiskRecord \/ RiskError \/ RiskTick

SpecRisk == InitRisk /\ [][NextRisk]_vars

\* The feed keeps delivering opportunities, an admitted opportunity's execution
\* returns and is recorded, and the clock runs.  No task of lib.rs::run calls the
\* sweep: it runs inside record_arbitrage_execution only.
SpecRiskLive ==
    /\ SpecRisk
    /\ WF_vars(RiskGate)
    /\ SF_vars(RiskRecord)
    /\ WF_vars(RiskTick)

-----------------------------------------------------------------------------
(* Inputs of the store runs.                                                *)

StoreAssets == {"a1", "a2"}

\* snapshot contents: as many bids as asks, more bids, more asks
StoreShapes ==
    {[bids |-> <<<<450, D(100)>>>>, asks |-> <<<<470, D(200)>>>>, hash |-> "h1"],
     [bids |-> <<<<450, D(100)>>, <<460, D(100)>>>>, asks |-> <<<<470, D(200)>>>>,
      hash |-> "h2"],
     [bids |-> <<>>, asks |-> <<<<470, D(200)>>, <<480, D(100)>>>>, hash |-> "h3"]}

\* the store runs start here (ms) and the clock steps by a little more than
\* the snapshot age limit
StoreStartMs == 2 * StaleSnapshotMs

StoreTickMs == StaleSnapshotMs + 100

\* a snapshot's timestamp relative to the local clock: delayed, current, ahead
SnapshotOffsets == {0 - StoreTickMs, 0, StoreTickMs}

BookSnapshot(market_id, asset_id, shape, timestamp) ==
    [asset_id |-> asset_id, market |-> market_id, bids |-> shape.bids,
     asks |-> shape.asks, timestamp |-> timestamp, hash |-> shape.hash]

StoreDeltas ==
    {[price |-> 470, size |-> 0, side |-> "SELL"]}

DefaultConfig ==
    [max_concurrent_arbs |-> 2, daily_loss_limit |-> 50,
     max_exposure_per_market |-> 300, inventory_drift_threshold |-> D(450),
     min_liquidity |-> 100, position_timeout_seconds |-> SecondsPerDay,
     min_edge |-> 25, max_arb_size |-> 100, bankroll |-> 1000,
     blacklisted_markets |-> <<>>, slippage_tolerance |-> 10]

InitStore ==
    /\ now = StoreStartMs
    /\ config = DefaultConfig
    /\ InitComponents
    /\ InitScanner(<<>>)
    /\ InitSession

StoreSnapshot ==
    \E a \in StoreAssets, shape \in StoreShapes, off \in SnapshotOffsets :
        update_book("m1", a, BookSnapshot("m1", a, shape, now + off))

\* a third asset of the market, with a current snapshot
StoreThirdAsset ==
    \E shape \in {sh \in StoreShapes : sh.hash = "h1"} :
        update_book("m1", "a3", BookSnapshot("m1", "a3", shape, now))

StoreDelta ==
    \E a \in StoreAssets, d \in StoreDeltas :
        update_price("m1", a, d.price, d.size, d.side)

\* a delta for a market the store does not hold
StoreUnknownDelta ==
    \E d \in StoreDeltas : update_price("m2", "b1", d.price, d.size, d.side)

StoreTick ==
    /\ now + StoreTickMs <= StoreStartMs + MaxStoreTicks * StoreTickMs
    /\ Tick(StoreTickMs)

NextStore ==
    StoreSnapshot \/ StoreThirdAsset \/ StoreDelta \/ StoreUnknownDelta \/ StoreTick

SpecStore == InitStore /\ [][NextStore]_vars

\* The clock runs and the feed keeps delivering snapshots, of some asset or
\* other.  cleanup_stale_books has no caller in lib.rs::run or its tasks, so no
\* step of the store runs takes it.
SpecStoreLive == SpecStore /\ WF_vars(StoreTick) /\ WF_vars(StoreSnapshot)

-----------------------------------------------------------------------------
(* Inputs of the detector runs.                                             *)

DetectMarkets == {"m1", "m3"}

\* snapshot contents for the two-asset market
BinaryShapes ==
    {[bids |-> <<>>, asks |-> <<>>, hash |-> "h0"],
     [bids |-> <<<<250, D(100)>>, <<260, D(100)>>>>, asks |-> <<<<300, D(200)>>>>,
      hash |-> "h1"],
     [bids |-> <<>>, asks |-> <<<<300, D(50)>>>>, hash |-> "h2"],
     [bids |-> <<>>, asks |-> <<<<480, D(200)>>, <<520, D(200)>>>>, hash |-> "h3"],
     [bids |-> <<>>, asks |-> <<<<520, D(200)>>>>, hash |-> "h4"]}

\* snapshot contents for the three-asset market
MultiShapes ==
    {[bids |-> <<>>, asks |-> <<<<300, D(200)>>>>, hash |-> "h1"],
     [bids |-> <<>>, asks |-> <<<<300, D(50)>>>>, hash |-> "h2"],
     [bids |-> <<>>, asks |-> <<<<400, D(200)>>>>, hash |-> "h3"]}

\* the third outcome's book always quotes 0.30 x 200
ShapesOf(m, asset_id) ==
    IF m = "m1" THEN BinaryShapes
    ELSE IF asset_id = "c3" THEN {shape \in MultiShapes : shape.hash = "h1"}
    ELSE MultiShapes

DetectConfigs ==
    {[DefaultConfig EXCEPT !.blacklisted_markets = b] : b \in {<<>>, <<"3">>}}

InitDetect ==
    /\ now = StoreStartMs
    /\ config \in DetectConfigs
    /\ InitComponents
    /\ InitScanner(<<>>)
    /\ InitSession

DetectSnapshot ==
    \E m \in DetectMarkets :
        \E i \in 1..Len(AssetsOf(m)) : \E shape \in ShapesOf(m, AssetsOf(m)[i]) :
            update_book(m, AssetsOf(m)[i], BookSnapshot(m, AssetsOf(m)[i], shape, now))

DetectRun == \E m \in DetectMarkets \cup {"m2"} : detect_arbitrage(m)

NextDetect == DetectSnapshot \/ DetectRun

SpecDetect == InitDetect /\ [][NextDetect]_vars

-----------------------------------------------------------------------------
(* Inputs of the ladder runs: one three-asset market fed with snapshots and  *)
(* deltas as the feed can word them, and scanned by the detector.            *)

\* snapshot contents: regular, without asks, with a zero-size ask level, locked
LadderShapes ==
    {[bids |-> <<<<250, D(100)>>>>, asks |-> <<<<300, D(200)>>>>, hash |-> "k1"],
     [bids |-> <<<<250, D(100)>>>>, asks |-> <<>>, hash |-> "k2"],
     [bids |-> <<>>, asks |-> <<<<300, 0>>, <<400, D(200)>>>>, hash |-> "k3"],
     [bids |-> <<<<470, D(200)>>>>, asks |-> <<<<470, D(200)>>>>, hash |-> "k4"]}

\* the third asset's book is always the regular one
LadderShapesOf(asset_id) ==
    IF asset_id = "c3" THEN {shape \in LadderShapes : shape.hash = "k1"}
    ELSE LadderShapes

LadderDeltas ==
    {[price |-> 300, size |-> 0, side |-> "SELL"],
     [price |-> 350, size |-> D(100), side |-> "BUY"]}

InitLadder ==
    /\ now = StoreStartMs
    /\ config = DefaultConfig
    /\ InitComponents
    /\ InitScanner(<<>>)
    /\ InitSession

LadderSnapshot ==
    \E i \in 1..Len(AssetsOf("m3")) : \E shape \in LadderShapesOf(AssetsOf("m3")[i]) :
        update_book("m3", AssetsOf("m3")[i],
                    BookSnapshot("m3", AssetsOf("m3")[i], shape, now))

LadderDelta ==
    \E d \in LadderDeltas : update_price("m3", "c1", d.price, d.size, d.side)

LadderDetect == detect_arbitrage("m3")

NextLadder == LadderSnapshot \/ LadderDelta \/ LadderDetect

SpecLadder == InitLadder /\ [][NextLadder]_vars

-----------------------------------------------------------------------------
(* Inputs of the cross-market runs: a two-asset market m1 and a one-asset   *)
(* market m2 of the same event, quoted around the scan's thresholds.         *)

CrossQuestion(price, words) ==
    [price |-> price, reach |-> TRUE, dip |-> FALSE, parent_kw |-> FALSE,
     child_kw |-> FALSE, words |-> words]

\* "Will Bitcoin reach $100k in 2026?"
MarketReach100 ==
    [market |-> "m1", event_id |-> Some("e1"),
     question |-> CrossQuestion(Some(100), {"bitcoin", "reach", "$100k", "2026?"})]

\* "Will Bitcoin reach $150k in 2026?"
MarketReach150 ==
    [market |-> "m2", event_id |-> Some("e1"),
     question |-> CrossQuestion(Some(150), {"bitcoin", "reach", "$150k", "2026?"})]

\* "Will Bitcoin ever reach the moon in 2026?"
MarketReachMoon ==
    [market |-> "m2", event_id |-> Some("e1"),
     question |-> CrossQuestion(None, {"bitcoin", "ever", "reach", "moon", "2026?"})]

\* the second market, listed under no event
MarketNoEvent == [MarketReach150 EXCEPT !.event_id = None]

Catalogs ==
    {<<MarketReach100, MarketReach150>>, <<MarketReach150, MarketReach100>>,
     <<MarketReach100, MarketReachMoon>>, <<MarketReach100, MarketNoEvent>>}

CrossQuote(bid, ask, hash) ==
    [bids |-> <<<<bid, D(100)>>>>, asks |-> <<<<ask, D(100)>>>>, hash |-> hash]

CrossShapes ==
    {CrossQuote(380, 400, "x1"), CrossQuote(420, 440, "x2"),
     CrossQuote(425, 445, "x3"), CrossQuote(430, 450, "x4"),
     CrossQuote(500, 520, "x5"), CrossQuote(970, 990, "x6"),
     [bids |-> <<>>, asks |-> <<<<400, D(100)>>>>, hash |-> "x7"]}

CrossBooks == {<<"m1", "a1">>, <<"m1", "a2">>, <<"m2", "b1">>}

\* the second asset of m1 is always quoted 0.38 / 0.40
CrossShapesOf(asset_id) ==
    IF asset_id = "a2" THEN {shape \in CrossShapes : shape.hash = "x1"}
    ELSE CrossShapes

CrossConfigs ==
    {[DefaultConfig EXCEPT !.max_arb_size = c[1], !.min_edge = c[2]] :
        c \in {<<100, 25>>, <<10, 25>>, <<100, 50>>}}

InitCross ==
    /\ now = StoreStartMs
    /\ config \in CrossConfigs
    /\ InitComponents
    /\ \E catalog \in Catalogs : InitScanner(catalog)
    /\ InitSession

CrossSnapshot ==
    \E b \in CrossBooks : \E shape \in CrossShapesOf(b[2]) :
        update_book(b[1], b[2], BookSnapshot(b[1], b[2], shape, now))

CrossBuild == build_correlation_graph

CrossScan == scan_cross_market_parallel

NextCross == CrossSnapshot \/ CrossBuild \/ CrossScan

SpecCross == InitCross /\ [][NextCross]_vars

-----------------------------------------------------------------------------
(* Inputs of the multi-outcome scan: a catalog of the three-outcome market   *)
(* m3 and the two-outcome market m1, whose books receive snapshots, scanned  *)
(* under the default limits and under a larger max_arb_size.                 *)

ScanCatalog ==
    <<[market |-> "m3", outcomes |-> <<"A", "B", "C">>],
      [market |-> "m1", outcomes |-> <<"Yes", "No">>]>>

ScanConfigs == {[DefaultConfig EXCEPT !.max_arb_size = c] : c \in {100, 300}}

InitScan ==
    /\ now = StoreStartMs
    /\ config \in ScanConfigs
    /\ InitComponents
    /\ InitScanner(ScanCatalog)
    /\ InitSession

ScanSnapshot ==
    \E m \in DetectMarkets :
        \E i \in 1..Len(AssetsOf(m)) : \E shape \in ShapesOf(m, AssetsOf(m)[i]) :
            update_book(m, AssetsOf(m)[i], BookSnapshot(m, AssetsOf(m)[i], shape, now))

ScanRun == scan_multi_outcome_parallel

NextScan == ScanSnapshot \/ ScanRun

SpecScan == InitScan /\ [][NextScan]_vars

-----------------------------------------------------------------------------
(* Inputs of the executor runs: the opportunities of the risk runs, quoted   *)
(* 0.47 / 0.48, executed while the exchange's asks stand where they were     *)
(* quoted, 0.004 higher, or 0.13 higher.                                      *)

FreshAskMoves == {0, 4, 130}

FreshReads(arb_op) ==
    {[a \in {arb_op.edges[i].asset_id : i \in 1..Len(arb_op.edges)} |->
         LET e == CHOOSE x \in {arb_op.edges[i] : i \in 1..Len(arb_op.edges)} :
                      x.asset_id = a
         IN  e.price + move[e.outcome]] :
        move \in [{"YES", "NO"} -> FreshAskMoves]}

InitExec ==
    /\ now = StoreStartMs
    /\ config = DefaultConfig
    /\ InitComponents
    /\ InitScanner(<<>>)
    /\ InitSession

ExecLive ==
    \E arb_op \in RiskOps : \E fresh_asks \in FreshReads(arb_op) :
        \E built \in BOOLEAN, posted \in [1..Len(arb_op.edges) -> BOOLEAN] :
            execute_arbitrage(arb_op, fresh_asks, built, posted)

NextExec == ExecLive

SpecExec == InitExec /\ [][NextExec]_vars

-----------------------------------------------------------------------------
(* Inputs of the shutdown runs: the live executor at work while an interrupt *)
(* may arrive.                                                               *)

\* an opportunity of the shape the multi-outcome detector emits for market m3
TripleOp(price, position_size) ==
    LET fee == DecMul(position_size, 20)
        per_outcome == DecDiv(position_size, D(3))
        net == position_size - DecMul(position_size, 3 * price) - fee
    IN  [market_id |-> "m3", arb_type |-> "MultiOutcome",
         edges |-> [i \in 1..3 |->
                      [asset_id |-> AssetsOf("m3")[i], outcome |-> OutcomeLabel(i - 1),
                       price |-> price, size |-> per_outcome,
                       expected_cost |-> DecMul(per_outcome, price)]],
         total_edge |-> DecDiv(net, position_size),
         min_liquidity |-> D(100), position_size |-> position_size,
         expected_profit_usd |-> net + fee, fee_cost |-> fee, net_profit |-> net]

LiveOps ==
    RiskOps \cup {TripleOp(300, D(100)), TripleOp(310, D(100)), TripleOp(300, D(150))}

InitLiveRun ==
    /\ now = StoreStartMs
    /\ config = DefaultConfig
    /\ InitComponents
    /\ InitScanner(<<>>)
    /\ InitSession

LiveSubmit ==
    \E arb_op \in LiveOps :
        \E built \in BOOLEAN, posted \in [1..Len(arb_op.edges) -> BOOLEAN] :
            execute_arbitrage_submit(arb_op, built, posted)

LiveCancel == \E cancel_ok \in BOOLEAN : execute_arbitrage_cancel(cancel_ok)

LiveInterrupt == ctrl_c

NextLive == LiveSubmit \/ LiveCancel \/ LiveInterrupt

SpecLive == InitLiveRun /\ [][NextLive]_vars

\* a linger that is polled ends and reaches the cancel; the interrupt is the
\* operator's and may come at any time or never
SpecLiveFair == SpecLive /\ WF_vars(LiveCancel)

-----------------------------------------------------------------------------
(* Inputs of the simulation runs: one task calls simulate_arbitrage.        *)

\* simulated executions per run
MaxSimCalls == 4

\* a bankroll equal to the cost of the 100-unit opportunities, and the default
SimConfigs == {[DefaultConfig EXCEPT !.bankroll = b] : b \in {95, 1000}}

SimOps == RiskOps \cup {BinaryOp("m1", 490, 490, D(100), D(100))}

InitSimRun ==
    /\ now = StoreStartMs
    /\ config \in SimConfigs
    /\ InitComponents
    /\ InitScanner(<<>>)
    /\ InitSession

\* calls made so far: accepted ones are in the log, a refused one changes nothing
SimRun ==
    /\ Len(trades) < MaxSimCalls
    /\ \E arb_op \in SimOps : simulate_arbitrage(arb_op)

NextSim == SimRun

SpecSim == InitSimRun /\ [][NextSim]_vars

-----------------------------------------------------------------------------
(* Inputs of the profit-and-loss runs: the simulation executes binary        *)
(* opportunities and the opportunity the multi-outcome detector emits for    *)
(* three asks of 0.30 x 200.                                                  *)

PnlAsks == [i \in 1..3 |-> [asset_id |-> AssetsOf("m3")[i], price |-> 300,
                            size |-> D(200)]]

PnlOps ==
    {BinaryOp("m1", 470, 480, D(100), D(100)),
     BinaryOp("m2", 470, 480, D(100), D(100)),
     Unwrap(detect_multi_outcome_arbitrage("m3", PnlAsks))}

PnlRun ==
    /\ Len(trades) < MaxSimCalls
    /\ \E arb_op \in PnlOps : simulate_arbitrage(arb_op)

NextPnl == PnlRun

SpecPnl == InitSimRun /\ [][NextPnl]_vars

-----------------------------------------------------------------------------
(* Inputs of the tracker runs: the short-window simulator enters trades of   *)
(* one or two minutes to expiry, resolves trades by id and resolves the      *)
(* expired ones, while the clock runs.                                       *)

\* trades entered in one run
MaxEntries == 2

\* resolutions made in one run
MaxResolutions == 3

\* clock steps in one tracker run
MaxTrackerTicks == 3

TrackerOpps ==
    {[market_id |-> "m1", minutes_to_expiry |-> m, yes_price |-> 470,
      no_price |-> 480, sum_prices |-> 950, position_size |-> D(50),
      expected_profit |-> DecMul(D(50), 30)] : m \in {1, 2}}

TrackerEnter ==
    /\ tracker.trades_entered < MaxEntries
    /\ \E opp \in TrackerOpps : simulate_entry(opp)

TrackerResolve ==
    /\ tracker.trades_won + tracker.trades_lost < MaxResolutions
    /\ \E trade_id \in 1..MaxEntries, won \in BOOLEAN :
           simulate_resolution(trade_id, won)

TrackerAuto ==
    /\ tracker.trades_won + tracker.trades_lost < MaxResolutions
    /\ auto_resolve_expired

\* the clock's step in the tracker runs (ms): half a minute
TrackerTickMs == 30 * MsPerSecond

TrackerTick ==
    /\ now + TrackerTickMs <= StoreStartMs + MaxTrackerTicks * TrackerTickMs
    /\ Tick(TrackerTickMs)

NextTracker == TrackerEnter \/ TrackerResolve \/ TrackerAuto \/ TrackerTick

SpecTracker == InitSimRun /\ [][NextTracker]_vars

-----------------------------------------------------------------------------
(* Inputs of the trade-log runs: enough simulated executions to fill the    *)
(* log and go past its capacity.                                            *)

\* executions made after the log is full
RingOverrun == 2

\* trades ever logged
LoggedEver == IF trades = <<>> THEN 0 ELSE trades[Len(trades)].seq

RingOps == {BinaryOp("m1", 470, 480, D(100), D(100))}

InitRing ==
    /\ now = StoreStartMs
    /\ config \in SimConfigs
    /\ InitComponents
    /\ InitScanner(<<>>)
    /\ InitSession

RingRun ==
    /\ LoggedEver < TradeLogCapacity + RingOverrun
    /\ \E arb_op \in RingOps : simulate_arbitrage(arb_op)

NextRing == RingRun

SpecRing == InitRing /\ [][NextRing]_vars

-----------------------------------------------------------------------------
(* Inputs of the concurrent simulation runs: tasks that share the executor  *)
(* call simulate_arbitrage, whose two lock sections are separate steps, and *)
(* a task reads balance and log.                                            *)

\* calls between their two lock sections
InFlight == Cardinality({c \in SimCallers : IsSome(sim_calls[c])})

ConcBalance ==
    /\ Len(trades) + InFlight < MaxSimCalls
    /\ \E caller \in SimCallers : \E arb_op \in RiskOps :
          simulate_arbitrage_balance(caller, arb_op)

ConcLog == \E caller \in SimCallers : simulate_arbitrage_log(caller)

ConcRead == read_simulation

NextConc == ConcBalance \/ ConcLog \/ ConcRead

SpecConc == InitSimRun /\ [][NextConc]_vars

-----------------------------------------------------------------------------
(* Inputs of the feed runs: frames about the two-asset market m1, whose     *)
(* books ask 0.30 for 200 or for 5000, and about a market the store does    *)
(* not hold.                                                                *)

BookMessage(m, a, size) ==
    [event_type |-> "book", market |-> m, asset_id |-> a, bids |-> Some(<<>>),
     asks |-> Some(<<[price |-> "0.30", size |-> size]>>), timestamp |-> None,
     hash |-> Some("h1"), price_changes |-> None]

PriceChangeMessage(m, a, price, size) ==
    [event_type |-> "price_change", market |-> m, asset_id |-> "", bids |-> None,
     asks |-> None, timestamp |-> None, hash |-> None,
     price_changes |-> Some(<<[asset_id |-> a, price |-> price, size |-> size,
                               side |-> "SELL"]>>)]

TradeMessage(m) ==
    [event_type |-> "last_trade_price", market |-> m, asset_id |-> "a1",
     bids |-> None, asks |-> None, timestamp |-> None, hash |-> None,
     price_changes |-> None]

TextFrame(messages) == [length |-> Len(messages), messages |-> Some(messages)]

FeedFrames ==
    {TextFrame(<<BookMessage("m1", a, size)>>) : a \in {"a1", "a2"},
                                                 size \in {"200", "5000"}}
    \cup {TextFrame(<<PriceChangeMessage("m1", "a1", "0.47", "200")>>),
          TextFrame(<<PriceChangeMessage("m2", "b1", "0.47", "0"),
                      BookMessage("m1", "a1", "5000")>>),
          TextFrame(<<PriceChangeMessage("m1", "a1", "abc", "200"),
                      BookMessage("m1", "a2", "5000")>>),
          TextFrame(<<PriceChangeMessage("m1", "a2", "0.47", "1e")>>),
          TextFrame(<<TradeMessage("m1")>>),
          [length |-> 40, messages |-> None],
          [length |-> MAX_MESSAGE_SIZE + 1,
           messages |-> Some(<<BookMessage("m1", "a1", "5000")>>)]}

InitFeed ==
    /\ now = StoreStartMs
    /\ config = DefaultConfig
    /\ InitComponents
    /\ InitScanner(<<>>)
    /\ InitSession

FeedFrame == \E frame \in FeedFrames : read_frame(frame)

FeedMessage == handle_message

FeedReconnect == reconnect

FeedRecord == \E result \in ExecResults : ExecuteRecord(result)

FeedError == ExecuteError

NextFeed == FeedFrame \/ FeedMessage \/ FeedReconnect \/ FeedRecord \/ FeedError

SpecFeed == InitFeed /\ [][NextFeed]_vars

-----------------------------------------------------------------------------
(* Inputs of the short-window runs: the two-asset market m1, quoted around  *)
(* the thresholds, listed in the catalog with several end dates, while the  *)
(* clock runs in half minutes.  In these configurations min_edge and         *)
(* max_arb_size are set to the short-window values, so that the binary       *)
(* detector runs with the short-window thresholds.                           *)

\* clock steps per run
MaxShortTicks == 2

ShortTickMs == 30 * MsPerSecond

ShortConfigs ==
    {[max_concurrent_arbs |-> 2, daily_loss_limit |-> 50,
      max_exposure_per_market |-> 300, inventory_drift_threshold |-> D(450),
      min_liquidity |-> 100, position_timeout_seconds |-> SecondsPerDay,
      min_edge |-> 8, max_arb_size |-> size, bankroll |-> 1000,
      blacklisted_markets |-> <<>>, slippage_tolerance |-> 10,
      short_window_min_edge |-> 8, short_window_max_size |-> size,
      enable_short_window_markets |-> TRUE, short_window_minutes |-> 30,
      min_minutes_to_expiry |-> 2] : size \in {50, 150}}

\* the [markets] part of the configuration
MarketsConfigOf(cfg) ==
    [enable_short_window_markets |-> cfg.enable_short_window_markets,
     short_window_minutes |-> cfg.short_window_minutes,
     min_minutes_to_expiry |-> cfg.min_minutes_to_expiry]

\* seconds from the start of the run to the end dates of the catalog
ShortEndSeconds == {90, 120, 180, 1800, 1860}

ShortMarkets ==
    {[market |-> "m1", question |-> "bitcoin up or down at 12:15?",
      slug |-> "btc-updown-1215",
      end_date |-> Some(StoreStartMs + sec * MsPerSecond)] : sec \in ShortEndSeconds}
    \cup {[market |-> "m1", question |-> "bitcoin up or down at 12:15?",
           slug |-> "btc-updown-1215", end_date |-> None],
          [market |-> "m1", question |-> "who wins the final?",
           slug |-> "final-winner",
           end_date |-> Some(StoreStartMs + 180 * MsPerSecond)]}

ShortShapes ==
    {[bids |-> <<>>, asks |-> <<<<470, D(200)>>>>, hash |-> "s1"],
     [bids |-> <<>>, asks |-> <<<<480, D(200)>>>>, hash |-> "s2"],
     [bids |-> <<>>, asks |-> <<<<490, D(200)>>>>, hash |-> "s3"],
     [bids |-> <<>>, asks |-> <<<<470, D(50)>>>>, hash |-> "s4"]}

InitShort ==
    /\ now = StoreStartMs
    /\ config \in ShortConfigs
    /\ InitComponents
    /\ InitScanner(<<>>)
    /\ InitSession

ShortSnapshot ==
    \E a \in {"a1", "a2"}, shape \in ShortShapes :
        update_book("m1", a, BookSnapshot("m1", a, shape, now))

ShortDetect ==
    \E market \in ShortMarkets : short_window_detect(market, MarketsConfigOf(config))

ShortTick ==
    /\ now + ShortTickMs <= StoreStartMs + MaxShortTicks * ShortTickMs
    /\ Tick(ShortTickMs)

NextShort == ShortSnapshot \/ ShortDetect \/ ShortTick

SpecShort == InitShort /\ [][NextShort]_vars

-----------------------------------------------------------------------------
(* Claims about the risk manager (checked under SpecRisk).                  *)

OpenSizeIn(m) ==
    LET S == {a \in DOMAIN positions : positions[a].market_id = m}
    IN  SumOver(S, [a \in S |-> positions[a].size])

\* C1: for every market the market-exposure entry equals the sum of the sizes of
\* the positions currently open in that market, also when the same asset is
\* traded by more than one admitted opportunity.
C1_ExposureEqualsOpenPositions ==
    \A m \in RiskMarkets : MapGet(market_exposure, m, 0) = OpenSizeIn(m)

\* the executions that still have an open (unswept) position
OpenOpportunities == UNION {positions[a].opps : a \in DOMAIN positions}

\* C2: active_arbs equals the number of admitted opportunities that still have
\* open (unswept) positions.
C2_ActiveArbsCountsOpenOpportunities ==
    active_arbs = Cardinality(OpenOpportunities)

\* the five admission conditions, the daily-loss one as the claim states it
C4_ConditionsStrict(arb_op) ==
    /\ active_arbs < config.max_concurrent_arbs
    /\ daily_pnl.total_pnl > -D(config.daily_loss_limit)
    /\ MapGet(market_exposure, arb_op.market_id, 0) + arb_op.position_size
          <= D(config.max_exposure_per_market)
    /\ Abs(SumOver(DOMAIN positions, [a \in DOMAIN positions |-> positions[a].size])
           + SeqSum([i \in 1..Len(arb_op.edges) |-> arb_op.edges[i].size]))
          <= config.inventory_drift_threshold
    /\ arb_op.min_liquidity >= D(config.min_liquidity)

\* the five admission conditions, the daily-loss one not strict
C4_Conditions(arb_op) ==
    /\ active_arbs < config.max_concurrent_arbs
    /\ daily_pnl.total_pnl >= -D(config.daily_loss_limit)
    /\ MapGet(market_exposure, arb_op.market_id, 0) + arb_op.position_size
          <= D(config.max_exposure_per_market)
    /\ Abs(SumOver(DOMAIN positions, [a \in DOMAIN positions |-> positions[a].size])
           + SeqSum([i \in 1..Len(arb_op.edges) |-> arb_op.edges[i].size]))
          <= config.inventory_drift_threshold
    /\ arb_op.min_liquidity >= D(config.min_liquidity)

\* C4 (as claimed): can_execute_arbitrage(op) returns true iff the five conditions
\* hold, with daily_pnl.total > -daily_loss_limit strictly.
C4_GateIffStrict ==
    last.kind = "can_execute" => (last.verdict <=> C4_ConditionsStrict(last.op))

\* C4 (amended): can_execute_arbitrage(op) returns true iff the five conditions
\* hold, the second being daily_pnl.total >= -daily_loss_limit.
C4_GateIff ==
    last.kind = "can_execute" => (last.verdict <=> C4_Conditions(last.op))

\* with an arbitrage open, the gate admitted an opportunity while the day's total
\* P&L sat exactly on the loss limit
C4_Witness ==
    /\ last.kind = "can_execute"
    /\ last.verdict
    /\ daily_pnl.total_pnl = -D(config.daily_loss_limit)
    /\ active_arbs > 0

\* C5: with no record_arbitrage_execution in between, every call of
\* can_execute_arbitrage on an opportunity returns the same verdict: no step
\* other than a recording changes the verdict the gate gives any opportunity.
C5_VerdictStableWithoutRecord ==
    [][last'.kind # "record" =>
          \A arb_op \in RiskOps :
              GateVerdict(RolledDailyPnl, arb_op)' = GateVerdict(RolledDailyPnl, arb_op)]_vars

\* the gate was asked twice about one opportunity, nothing recorded in between,
\* after the date changed between the calls
C5_Witness ==
    /\ last.kind = "can_execute"
    /\ last.repeat
    /\ last.rolled
    /\ recorded > 0

\* C6: when the UTC date has changed since the stored date, can_execute_arbitrage
\* resets realized, unrealized and total P&L and the trade/arb counters to zero
\* and stores the new date before it evaluates the admission conditions.
C6_RolloverBeforeEvaluation ==
    (last.kind = "can_execute" /\ last.rolled) =>
        /\ daily_pnl.date = Today
        /\ daily_pnl.realized_pnl = 0
        /\ daily_pnl.unrealized_pnl = 0
        /\ daily_pnl.total_pnl = 0
        /\ daily_pnl.trade_count = 0
        /\ daily_pnl.arb_count = 0
        /\ last.verdict = GateVerdict(NewDailyPnl(Today), last.op)

\* the date changed after trades had been counted, and the gate was asked
C6_Witness ==
    /\ last.kind = "can_execute"
    /\ last.rolled
    /\ last.trades_before > 0

-----------------------------------------------------------------------------
(* Claims about the order-book store (checked under SpecStore).             *)

\* the book the store holds for an asset of a market, if any
BookOf(store, market_id, asset_id) ==
    IF market_id \in DOMAIN store /\ BookIndex(store[market_id].books, asset_id) # 0
    THEN Some(store[market_id].books[BookIndex(store[market_id].books, asset_id)])
    ELSE None

TagsOf(store, market_id) ==
    IF market_id \in DOMAIN store
    THEN <<store[market_id].asset_id_yes, store[market_id].asset_id_no>>
    ELSE <<None, None>>

\* the book a snapshot describes
SnapshotAsBook(market_id, asset_id, snapshot) ==
    [market_id |-> market_id, asset_id |-> asset_id,
     bids |-> [p \in {snapshot.bids[i][1] : i \in 1..Len(snapshot.bids)} |->
                 LET i == CHOOSE j \in 1..Len(snapshot.bids) :
                            /\ snapshot.bids[j][1] = p
                            /\ \A k \in (j + 1)..Len(snapshot.bids) : snapshot.bids[k][1] # p
                 IN  snapshot.bids[i][2]],
     asks |-> [p \in {snapshot.asks[i][1] : i \in 1..Len(snapshot.asks)} |->
                 LET i == CHOOSE j \in 1..Len(snapshot.asks) :
                            /\ snapshot.asks[j][1] = p
                            /\ \A k \in (j + 1)..Len(snapshot.asks) : snapshot.asks[k][1] # p
                 IN  snapshot.asks[i][2]],
     timestamp |-> snapshot.timestamp, hash |-> snapshot.hash]

C10_TwoBooksTagged ==
    \A m \in DOMAIN market_books :
        LET mb == market_books[m]
        IN  Len(mb.books) >= 2 =>
               /\ IsSome(mb.asset_id_yes)
               /\ IsSome(mb.asset_id_no)
               /\ Unwrap(mb.asset_id_yes) # Unwrap(mb.asset_id_no)
               /\ {Unwrap(mb.asset_id_yes), Unwrap(mb.asset_id_no)}
                     = {mb.books[1].asset_id, mb.books[2].asset_id}
               /\ mb.books[1].asset_id # mb.books[2].asset_id

\* a delta has just been applied to a market of two books whose first book has
\* more bid levels than ask levels
C10_Witness ==
    /\ last.kind = "update_price"
    /\ last.result = "Ok"
    /\ last.market_id \in DOMAIN market_books
    /\ Len(market_books[last.market_id].books) = 2
    /\ is_binary(market_books[last.market_id])
    /\ market_books[last.market_id].asset_id_yes
          = Some(market_books[last.market_id].books[1].asset_id)

-----------------------------------------------------------------------------
(* Claims about the single-market detector (SpecDetect).                    *)

\* the opportunity the last detect_arbitrage call returned
Emitted == last.kind = "detect" /\ IsSome(last.result)
EmittedOp == Unwrap(last.result)

RECURSIVE EdgeCostSum(_)
EdgeCostSum(edges) ==
    IF edges = <<>> THEN 0 ELSE Head(edges).expected_cost + EdgeCostSum(Tail(edges))

\* the books' best asks as the specification reads them: one per book with asks
QuotedAsks(market_id) ==
    LET books == market_books[market_id].books
    IN  [i \in {j \in 1..Len(books) : DOMAIN books[j].asks # {}} |->
            [price |-> MinKey(books[i].asks),
             size  |-> books[i].asks[MinKey(books[i].asks)]]]

QuotedPriceSum(market_id) ==
    LET q == QuotedAsks(market_id) IN SumOver(DOMAIN q, [i \in DOMAIN q |-> q[i].price])

QuotedSizeMin(market_id) ==
    LET q == QuotedAsks(market_id)
    IN  IF DOMAIN q = {} THEN 0
        ELSE CHOOSE x \in {q[i].size : i \in DOMAIN q} : \A i \in DOMAIN q : x <= q[i].size

\* C7: for every emitted opportunity, binary or multi-outcome, the edges'
\* expected_cost summed, plus fee_cost, plus net_profit equals position_size
\* (the payout) within one rounding unit.
C7_CostsFeeProfitEqualPayout ==
    Emitted =>
        Abs(EdgeCostSum(EmittedOp.edges) + EmittedOp.fee_cost + EmittedOp.net_profit
            - EmittedOp.position_size) <= 1

\* C8: every emitted opportunity has net_profit > 0 and net_profit / position_size
\* >= min_edge, where net_profit = position - position * S - 0.02 * position and
\* S is the sum of the market's best asks.
C8_EmittedIsProfitable ==
    Emitted =>
        LET op == EmittedOp
            S  == QuotedPriceSum(op.market_id)
        IN  /\ op.net_profit > 0
            /\ op.net_profit * DecScale >= config.min_edge * op.position_size
            /\ op.net_profit * DecScale =
                   op.position_size * DecScale
                   - op.position_size * S
                   - op.position_size * FeeRate

C8_Witness ==
    /\ Emitted
    /\ EmittedOp.arb_type = "Binary"
    /\ \E m \in DOMAIN market_books :
           /\ Len(market_books[m].books) = 3
           /\ IsSome(detect_multi_outcome_arbitrage(m, get_best_asks_for_market(m)))

\* the specification's steps 1-10 for a market the store holds
RulesPass(market_id) ==
    LET q == QuotedAsks(market_id)
        n == Cardinality(DOMAIN q)
        S == QuotedPriceSum(market_id)
        ratio == DecDiv(DecOne - S, config.min_edge)
        clamped == IF ratio < 0 THEN 0 ELSE Min2(ratio, D(2))
        by_edge == DecMul(D(config.max_arb_size), clamped)
        cap == IF is_binary(market_books[market_id])
               THEN QuotedSizeMin(market_id)
               ELSE QuotedSizeMin(market_id) * n
        position == Min2(Min2(by_edge, cap), D(config.max_arb_size))
        net == position - DecMul(position, S) - DecMul(position, FeeRate)
    IN  /\ n >= 2
        /\ is_binary(market_books[market_id]) => n = 2
        /\ S < DecOne
        /\ position >= D(config.min_liquidity)
        /\ net > 0
        /\ net * DecScale >= config.min_edge * position
        /\ \A i \in 1..Len(config.blacklisted_markets) :
               ~StrContains(market_id, config.blacklisted_markets[i])

\* C9: the detector emits an opportunity for a market exactly when the rules of
\* steps 1-10 pass; it applies no additional reject condition.
C9_EmitsIffRulesPass ==
    (last.kind = "detect" /\ last.found) =>
        (IsSome(last.result) <=> RulesPass(last.market_id))

\* C9 as the code has it: the rules of steps 1-10 pass and, in a multi-outcome
\* market too, the smallest best-ask size itself reaches min_liquidity.
C9_EmitsIffRulesPassAndEveryAskLiquid ==
    (last.kind = "detect" /\ last.found) =>
        (IsSome(last.result) <=>
            /\ RulesPass(last.market_id)
            /\ QuotedSizeMin(last.market_id) >= D(config.min_liquidity))

C9_Witness ==
    /\ Emitted
    /\ EmittedOp.arb_type = "MultiOutcome"
    /\ \E m \in DOMAIN market_books :
           /\ is_binary(market_books[m])
           /\ RulesPass(m)
    /\ config.blacklisted_markets = <<>>


-----------------------------------------------------------------------------
(* Claims about tagging and labelling.                                      *)

\* a book with more bid levels than ask levels
MoreBidsThanAsks(book) ==
    Cardinality(DOMAIN book.bids) > Cardinality(DOMAIN book.asks)

\* the book the stated policy tags Yes: the one with more bid levels than ask
\* levels, the first-inserted one when that does not single out a book
PolicyYesBook(books) ==
    IF MoreBidsThanAsks(books[2]) /\ ~MoreBidsThanAsks(books[1])
    THEN books[2] ELSE books[1]

BooksCount(store, market_id) ==
    IF market_id \in DOMAIN store THEN Len(store[market_id].books) ELSE 0

\* C11: when a market reaches two books, the Yes tag goes to the book that has
\* more bid levels than ask levels and No to the other; when neither book is
\* distinguished that way, the first-inserted book is tagged Yes.
C11_TagPolicyFirstInsertedOnTie ==
    [][(/\ last'.kind = "update_book"
        /\ BooksCount(market_books, last'.market_id) < 2
        /\ BooksCount(market_books', last'.market_id) = 2) =>
          LET mb == market_books'[last'.market_id]
              yes == PolicyYesBook(mb.books)
          IN  /\ mb.asset_id_yes = Some(yes.asset_id)
              /\ mb.asset_id_no = Some(IF yes = mb.books[1]
                                       THEN mb.books[2].asset_id
                                       ELSE mb.books[1].asset_id)]_vars


\* C12: in every emitted Binary opportunity the edge labelled YES carries the
\* asset id the store has tagged Yes for the market, and the edge labelled NO the
\* asset id tagged No.
C12_BinaryEdgesCarryTaggedAssets ==
    (Emitted /\ EmittedOp.arb_type = "Binary") =>
        LET mb == market_books[EmittedOp.market_id]
        IN  \A i \in 1..Len(EmittedOp.edges) :
               LET edge == EmittedOp.edges[i]
               IN  /\ edge.outcome = "YES" => Some(edge.asset_id) = mb.asset_id_yes
                   /\ edge.outcome = "NO" => Some(edge.asset_id) = mb.asset_id_no


-----------------------------------------------------------------------------
(* Claims about the ladders (checked under SpecLadder).                     *)

\* C13: every emitted single-market opportunity contains exactly one edge for
\* every book the store holds for that market; no opportunity is emitted from a
\* market in which some book currently has no ask level.
C13_OneEdgePerBook ==
    Emitted =>
        LET books == market_books[EmittedOp.market_id].books
        IN  /\ Len(EmittedOp.edges) = Len(books)
            /\ \A i \in 1..Len(books) :
                   /\ DOMAIN books[i].asks # {}
                   /\ EmittedOp.edges[i].asset_id = books[i].asset_id

\* C14: after any sequence of snapshots and deltas, every price level stored in
\* any bid or ask ladder has size > 0.
C14_StoredLevelsPositive ==
    \A m \in DOMAIN market_books : \A i \in 1..Len(market_books[m].books) :
        LET book == market_books[m].books[i]
        IN  /\ \A p \in DOMAIN book.bids : book.bids[p] > 0
            /\ \A p \in DOMAIN book.asks : book.asks[p] > 0

\* C15: in every reachable store state, for every book in which both a best bid
\* and a best ask exist, the best bid price is strictly below the best ask price.
C15_BooksNeverCrossedOrLocked ==
    \A m \in DOMAIN market_books : \A i \in 1..Len(market_books[m].books) :
        LET book == market_books[m].books[i]
        IN  (IsSome(best_bid(book)) /\ IsSome(best_ask(book))) =>
                Unwrap(best_bid(book))[1] < Unwrap(best_ask(book))[1]

-----------------------------------------------------------------------------
(* Claims about the cross-market scan (checked under SpecCross).            *)

\* the quotes the scan takes as a market's Yes quotes: those of its first book
YesAskOf(market_id) == MinKey(market_books[market_id].books[1].asks)

YesBidOf(market_id) == MaxKey(market_books[market_id].books[1].bids)

LogicalImplications ==
    IF last.kind = "scan_cross_market"
    THEN {last.result[i] : i \in {k \in 1..Len(last.result) :
                                     last.result[k].arb_type = "LogicalImplication"}}
    ELSE {}

\* C16: every LogicalImplication opportunity the cross-market scan emits belongs
\* to a Parent edge (A, B) with ask_a_yes + (1 - bid_b_yes) < 0.98, and its
\* profit, position x edge - position x 0.02, is strictly greater than 0.50.
C16_ParentEmissionLocksBelowCap ==
    \A opp \in LogicalImplications :
        LET cost == YesAskOf(opp.market_a_id) + (DecOne - YesBidOf(opp.market_b_id))
            position == D(config.max_arb_size)
        IN  /\ \E i \in 1..Len(correlations) :
                   /\ correlations[i].correlation_type = "Parent"
                   /\ correlations[i].market_a = opp.market_a_id
                   /\ correlations[i].market_b = opp.market_b_id
            /\ cost < 980
            /\ opp.position_size = position
            /\ opp.edge = DecOne - cost
            /\ opp.expected_profit * DecScale
                   = position * (DecOne - cost) - position * 20
            /\ 2 * opp.expected_profit > DecOne

\* an opportunity emitted three cents under par: cost 0.97, profit 1.00
C16_Witness ==
    \E opp \in LogicalImplications : opp.edge = 30 /\ opp.expected_profit = DecOne

-----------------------------------------------------------------------------
(* Claims about the position sweep (checked under SpecRisk).                *)

\* the positions and exposure tables of a record step as they stand when the
\* sweep starts: after the insertions of a successful execution
BeforeSweep ==
    LET op == Unwrap(pending)
        ok == last'.ok
    IN  [positions |-> IF ok THEN AddPositions(positions, op.market_id, op.edges,
                                               recorded + 1)
                       ELSE positions,
         market_exposure |-> IF ok THEN AddExposure(market_exposure, op.market_id,
                                                    op.edges)
                             ELSE market_exposure,
         event_exposure |-> IF ok THEN AddExposure(event_exposure, op.market_id,
                                                   op.edges)
                            ELSE event_exposure]

Expired(pos) ==
    {a \in DOMAIN pos :
        UtcTimestamp - pos[a].entry_time > config.position_timeout_seconds}

ExpiredSizeIn(pos, m) ==
    LET S == {a \in Expired(pos) : pos[a].market_id = m}
    IN  SumOver(S, [a \in S |-> pos[a].size])

\* C17: the sweep removes exactly the positions older than
\* position_timeout_seconds and lowers both the market-exposure and the
\* event-exposure entry of each removed position's market by its size; the other
\* positions and the exposure they account for are unchanged.
C17_SweepReleasesBothExposureTables ==
    [][last'.kind = "record" =>
         LET b == BeforeSweep
         IN  /\ DOMAIN positions' = DOMAIN b.positions \ Expired(b.positions)
             /\ \A a \in DOMAIN positions' : positions'[a] = b.positions[a]
             /\ \A m \in DOMAIN b.market_exposure :
                    market_exposure'[m] =
                        b.market_exposure[m] - ExpiredSizeIn(b.positions, m)
             /\ \A m \in DOMAIN b.event_exposure :
                    event_exposure'[m] =
                        b.event_exposure[m] - ExpiredSizeIn(b.positions, m)]_vars

GateClosed == active_arbs >= config.max_concurrent_arbs

AllPositionsExpired ==
    /\ DOMAIN positions # {}
    /\ Expired(positions) = DOMAIN positions

\* C18 (checked under SpecRiskLive): positions older than
\* position_timeout_seconds are eventually swept whether or not a further
\* opportunity is admitted; in particular, once active_arbs has reached
\* max_concurrent_arbs and the open positions have timed out, active_arbs is
\* eventually released and the gate can admit again.
C18_GateReopensAfterTimeout ==
    (GateClosed /\ AllPositionsExpired) ~> ~GateClosed

-----------------------------------------------------------------------------
(* Claims about eviction (checked under SpecStoreLive).                     *)

\* some book of the market has had no update for longer than the threshold
HoldsStaleBook(m, max_age_ms) ==
    /\ m \in DOMAIN market_books
    /\ \E i \in 1..Len(market_books[m].books) :
           now - market_books[m].books[i].timestamp > max_age_ms

\* C19: a market holding a book that has had no update for longer than the TTL
\* is eventually evicted from the store (or its books are updated again):
\* eviction is actually run during operation.
C19_StaleMarketEventuallyEvicted ==
    HoldsStaleBook("m1", StaleSnapshotMs)
        ~> ("m1" \notin DOMAIN market_books \/ ~HoldsStaleBook("m1", StaleSnapshotMs))

-----------------------------------------------------------------------------
(* Claims about the live executor (checked under SpecExec).                 *)

\* the fresh ask of some edge's asset is further from the edge's quoted price
\* than slippage_tolerance allows (as a fraction of the quoted price)
SlippageExceeded(arb_op, fresh_asks) ==
    \E i \in 1..Len(arb_op.edges) :
        LET edge == arb_op.edges[i]
        IN  Abs(fresh_asks[edge.asset_id] - edge.price) * DecScale
                > config.slippage_tolerance * edge.price

\* C20: when the fresh best ask of any edge's asset deviates from the edge's
\* quoted price by more than slippage_tolerance, the live executor submits no
\* order: the ExecutionResult it returns is unsuccessful and has no per-order
\* entries.
C20_NoOrderBeyondSlippage ==
    (/\ last.kind = "execute_arbitrage"
     /\ SlippageExceeded(last.op, last.fresh_asks)
     /\ IsSome(last.result))
        => /\ ~Unwrap(last.result).success
           /\ Unwrap(last.result).orders = <<>>

-----------------------------------------------------------------------------
(* Claims about shutdown (checked under SpecLiveFair).                      *)

\* C21: once an order of an opportunity has been submitted, a cancel-all is
\* eventually sent for that execution, also when an interrupt arrives during the
\* 200 ms linger.
C21_CancelAllAfterSubmission ==
    (live_stage.stage = "linger") ~> (cancel_alls = 1)

-----------------------------------------------------------------------------
(* Claims about per-order failures (checked under SpecExec).                *)

\* C22: a build, sign or submit failure for an edge is recorded as a failed
\* per-order result and never raised: execute_arbitrage returns an
\* ExecutionResult that reports one order per edge of the opportunity.
C22_OrderFailuresRecordedNotRaised ==
    last.kind = "execute_arbitrage"
        => /\ IsSome(last.result)
           /\ Len(Unwrap(last.result).orders) = Len(last.op.edges)
           /\ \A i \in 1..Len(last.op.edges) :
                  Unwrap(last.result).orders[i].asset_id = last.op.edges[i].asset_id

-----------------------------------------------------------------------------
(* Claims about failed executions (checked under SpecRisk).                 *)

\* the step that ends an attempt whose execution failed at opportunity level: the
\* executor returned Err, or a result with neither success nor partial_fill
FailedAttemptEnds ==
    \/ last'.kind = "exec_error"
    \/ last'.kind = "record" /\ ~last'.ok

\* C23 as stated: after a failed execution positions, both exposure tables,
\* active_arbs, the daily counters and the realized P&L are the same as before.
C23_FailedExecutionChangesNothing ==
    [][FailedAttemptEnds =>
         UNCHANGED <<positions, market_exposure, event_exposure, active_arbs,
                     daily_pnl>>]_vars

\* C23, amended: a failed execution debits nothing.  The daily counters, the
\* realized P&L and the event exposure are unchanged and no position is added;
\* when the executor returned a result, the sweep that record_arbitrage_execution
\* runs removes the timed-out positions and releases their market exposure and
\* active_arbs, and nothing else changes; when it returned Err, nothing changes.
C23_FailedExecutionOnlySweeps ==
    [][FailedAttemptEnds =>
         /\ daily_pnl' = daily_pnl
         /\ event_exposure' = event_exposure
         /\ IF last'.kind = "exec_error"
            THEN UNCHANGED <<positions, market_exposure, active_arbs>>
            ELSE /\ DOMAIN positions' = DOMAIN positions \ Expired(positions)
                 /\ \A a \in DOMAIN positions' : positions'[a] = positions[a]
                 /\ DOMAIN market_exposure' = DOMAIN market_exposure
                 /\ \A m \in DOMAIN market_exposure :
                        market_exposure'[m] =
                            market_exposure[m] - ExpiredSizeIn(positions, m)
                 /\ active_arbs' =
                        IF active_arbs >= Cardinality(Expired(positions))
                        THEN active_arbs - Cardinality(Expired(positions))
                        ELSE 0]_vars

\* a failed execution was recorded while positions had timed out
C23_Witness ==
    /\ last.kind = "record"
    /\ ~last.ok
    /\ last.swept # {}

-----------------------------------------------------------------------------
(* Claims about the simulation executor (checked under SpecSim).            *)

\* the summed expected_cost of the opportunity of the step's call
CallCost == SeqSum([i \in 1..Len(last'.op.edges) |-> last'.op.edges[i].expected_cost])

\* C24: simulate_arbitrage refuses an opportunity whose summed expected_cost
\* exceeds the balance, with an unsuccessful result and balance and log unchanged;
\* otherwise the balance changes by -sum(expected_cost) + position_size - fee_cost
\* and one trade is appended.
C24_RejectsOnlyBeyondBalance ==
    [][last'.kind = "simulate_arbitrage" =>
         IF CallCost > simulated_balance
         THEN /\ ~last'.result.success
              /\ ~last'.result.filled
              /\ ~last'.result.partial_fill
              /\ UNCHANGED <<simulated_balance, trades>>
         ELSE /\ last'.result.success
              /\ simulated_balance' =
                     simulated_balance - CallCost + last'.op.position_size
                         - last'.op.fee_cost
              /\ Len(trades') = Len(trades) + 1
              /\ SubSeq(trades', 1, Len(trades)) = trades
              /\ trades'[Len(trades')].market_id = last'.op.market_id
              /\ trades'[Len(trades')].total_cost = CallCost]_vars

\* an opportunity was accepted by a balance exactly equal to its cost
C24_Witness ==
    /\ last.kind = "simulate_arbitrage"
    /\ last.result.success
    /\ Len(trades) = 1
    /\ D(config.bankroll) =
          SeqSum([i \in 1..Len(last.op.edges) |-> last.op.edges[i].expected_cost])

\* an opportunity was refused
C24_WitnessRefused ==
    /\ last.kind = "simulate_arbitrage"
    /\ ~last.result.success

-----------------------------------------------------------------------------
(* Claims about the trade log (checked under SpecRing).                     *)

\* how many of the oldest trades the step dropped
DroppedByStep == Len(trades) + 1 - Len(trades')

\* C25: the trade log never holds more than 1000 trades, and an accepted
\* execution puts its trade last and keeps the others in execution order, dropping
\* only the oldest one and only when the log was full.
C25_LogKeepsMostRecentThousand ==
    [][/\ Len(trades') <= 1000
       /\ (last'.kind = "simulate_arbitrage" /\ last'.result.success) =>
             /\ Len(trades') = Min2(Len(trades) + 1, 1000)
             /\ trades'[Len(trades')].seq = LoggedEver + 1
             /\ trades'[Len(trades')].market_id = last'.op.market_id
             /\ \A i \in 1..(Len(trades') - 1) :
                    trades'[i] = trades[i + DroppedByStep]]_vars

\* the log is full and its oldest trade is no longer the first one ever logged
C25_Witness ==
    /\ Len(trades) = 1000
    /\ trades[1].seq > 1

-----------------------------------------------------------------------------
(* Claims about readers of the simulation executor (checked under SpecConc).*)

RECURSIVE NetProfitOf(_)
\* the summed net_profit of the trades of a log
NetProfitOf(log) ==
    IF log = <<>> THEN 0 ELSE Head(log).net_profit + NetProfitOf(Tail(log))

\* C26: a reader sees a balance and a trade log that agree: the balance is the
\* starting balance plus the net profit of exactly the logged trades.
C26_ReadsSeeConsistentPair ==
    last.kind = "read_simulation" =>
        last.balance = D(config.bankroll) + NetProfitOf(last.trades)

-----------------------------------------------------------------------------
(* Claims about the two executors (checked under SpecSim).                  *)

\* what OrderExecutor::execute_arbitrage returns for arb_op when every order is
\* accepted
LiveResultAllAccepted(arb_op) ==
    ExecutionResultOf(arb_op, create_signed_orders(arb_op),
                      submit_orders_parallel(create_signed_orders(arb_op),
                                             [i \in 1..Len(arb_op.edges) |-> TRUE]))

\* C27: for the same opportunity the simulation executor returns the flags, the
\* filled amount and the total_cost that the live executor returns when every
\* order is accepted.
C27_SimulationResultMatchesLive ==
    last.kind = "simulate_arbitrage" =>
        /\ last.result.success = LiveResultAllAccepted(last.op).success
        /\ last.result.filled = LiveResultAllAccepted(last.op).filled
        /\ last.result.partial_fill = LiveResultAllAccepted(last.op).partial_fill
        /\ last.result.filled_amount = LiveResultAllAccepted(last.op).filled_amount
        /\ last.result.total_cost = LiveResultAllAccepted(last.op).total_cost

-----------------------------------------------------------------------------
(* Claims about the WebSocket client (checked under SpecFeed).              *)

\* the step handles the message at the head of the frame
HandlesMessage == last'.kind \in {"ws_message", "ws_error"}

\* every entry of the message's price_changes has a price and a size that parse
EntriesParse(ws_msg) ==
    \A i \in 1..Len(Unwrap(ws_msg.price_changes)) :
        /\ ParseDecimal(Unwrap(ws_msg.price_changes)[i].price) # None
        /\ ParseDecimal(Unwrap(ws_msg.price_changes)[i].size) # None

\* C28: a price_change for a market the store does not hold is dropped: the store
\* is unchanged, the handler returns without error, the connection stays open and
\* the rest of the frame is still to be handled.
C28_UnknownMarketDeltaDropped ==
    [][(/\ HandlesMessage
        /\ IsSome(last'.ws_msg.price_changes)
        /\ EntriesParse(last'.ws_msg)
        /\ last'.ws_msg.market \notin DOMAIN market_books)
       => /\ market_books' = market_books
          /\ last'.kind = "ws_message"
          /\ connected'
          /\ inbox' = Tail(inbox)]_vars

\* C29: a frame that cannot be decoded, and a price_change with an entry whose
\* price or size is not a decimal, are skipped: the connection stays open and the
\* read loop goes on with what follows.
C29_UndecodableInputSkipped ==
    [][/\ (last'.kind = "ws_frame" /\ last'.frame.messages = None)
          => (connected' /\ inbox' = <<>>)
       /\ (/\ HandlesMessage
           /\ IsSome(last'.ws_msg.price_changes)
           /\ ~EntriesParse(last'.ws_msg))
          => /\ last'.kind = "ws_message"
             /\ connected'
             /\ inbox' = Tail(inbox)]_vars

\* Q of the claim in ten-millionths, total_edge, min_liquidity, position_size and
\* net_profit being held in thousandths
QualityTenMillionths(op) ==
    Min2(4 * (op.total_edge * 100000), 4 * 10000000)
        + Min2(3 * op.min_liquidity, 3 * 10000000)
        + Min2(2 * (op.position_size * 2), 2 * 10000000)
        + Min2(op.net_profit * 20, 10000000)

\* C30: an opportunity the ingest path takes to can_execute_arbitrage has Q >= 5;
\* one with Q < 5 does not reach the gate and leaves the risk manager's and the
\* executors' state as it was.
C30_OnlyQualityReachesGate ==
    [][(last'.kind = "ws_message" /\ IsSome(last'.found)) =>
          /\ last'.gated => QualityTenMillionths(Unwrap(last'.found)) >= 5 * 10000000
          /\ QualityTenMillionths(Unwrap(last'.found)) < 5 * 10000000
                => /\ ~last'.gated
                   /\ UNCHANGED <<riskVars, simVars, liveVars>>]_vars

\* after an execution was recorded, an opportunity with Q < 5 was detected and
\* dropped
C30_Witness ==
    /\ last.kind = "ws_message"
    /\ IsSome(last.found)
    /\ QualityTenMillionths(Unwrap(last.found)) < 5 * 10000000
    /\ ~last.gated
    /\ DOMAIN positions # {}

-----------------------------------------------------------------------------
(* Claims about the short-window detector (checked under SpecShort).        *)

\* the call was made for a market of the store that is short-window at the time
ShortWindowCall ==
    /\ last.kind = "short_window"
    /\ last.found
    /\ analyze_short_window(last.market, MarketsConfigOf(config)).is_short_window

\* C31: for a binary short-window market the short-window detector emits exactly
\* when the binary detector, run with min_edge = short_window_min_edge and
\* max_arb_size = short_window_max_size, emits, and with the same position size
\* and net profit.
C31_ShortWindowMatchesBinary ==
    (ShortWindowCall /\ Len(last.best_asks) = 2) =>
        /\ IsSome(last.result)
              <=> IsSome(detect_binary_arbitrage(last.market.market, last.best_asks))
        /\ IsSome(last.result) =>
              /\ Unwrap(last.result).position_size =
                    Unwrap(detect_binary_arbitrage(last.market.market,
                                                   last.best_asks)).position_size
              /\ Unwrap(last.result).expected_profit =
                    Unwrap(detect_binary_arbitrage(last.market.market,
                                                   last.best_asks)).net_profit

\* milliseconds from now to the end date of the market of the call
TimeLeftMs == Unwrap(last.market.end_date) - now

\* C33: the short-window detector emits nothing for a market with less than
\* min_minutes_to_expiry left or with more than short_window_minutes left, and a
\* market that matches the up/down pattern and has at least min_minutes_to_expiry
\* and at most short_window_minutes left is eligible.
C33_ExpiryWindow ==
    (last.kind = "short_window" /\ IsSome(last.market.end_date)) =>
        /\ TimeLeftMs < config.min_minutes_to_expiry * MsPerMinute
              => last.result = None
        /\ TimeLeftMs > config.short_window_minutes * MsPerMinute
              => last.result = None
        /\ (/\ TimeLeftMs >= config.min_minutes_to_expiry * MsPerMinute
            /\ TimeLeftMs <= config.short_window_minutes * MsPerMinute
            /\ UpDownMatch(last.market.question) \/ UpDownMatch(last.market.slug))
              => analyze_short_window(last.market,
                                      MarketsConfigOf(config)).is_short_window

\* what the single-market detector returns for the three-outcome market
MultiRulesResult == detect_multi_outcome_arbitrage("m3", get_best_asks_for_market("m3"))

\* C32: for the market of three outcomes, all three quoted, the periodic multi-outcome scan emits an
\* opportunity exactly when the multi-outcome detector emits one for the same
\* books, with the same position size and the same profit net of the fee.
C32_ScanMatchesMultiOutcomeRules ==
    (/\ last.kind = "scan_multi_outcome"
     /\ "m3" \in DOMAIN market_books
     /\ Len(get_best_asks_for_market("m3")) = 3) =>
        /\ (last.result # <<>>) <=> IsSome(MultiRulesResult)
        /\ (last.result # <<>>) =>
              /\ last.result[1].position_size = Unwrap(MultiRulesResult).position_size
              /\ last.result[1].expected_profit = Unwrap(MultiRulesResult).net_profit

\* a live execution that returned an ExecutionResult
LiveResult == last.kind = "execute_arbitrage" /\ IsSome(last.result)

\* edge i of the executed opportunity has an accepted order in the result
EdgeAccepted(i) ==
    \E j \in 1..Len(Unwrap(last.result).orders) :
        /\ Unwrap(last.result).orders[j].asset_id = last.op.edges[i].asset_id
        /\ Unwrap(last.result).orders[j].success

\* edge i has an accepted order that carries an order id
EdgeConfirmed(i) ==
    \E j \in 1..Len(Unwrap(last.result).orders) :
        /\ Unwrap(last.result).orders[j].asset_id = last.op.edges[i].asset_id
        /\ Unwrap(last.result).orders[j].success
        /\ IsSome(Unwrap(last.result).orders[j].order_id)

\* C34: in every ExecutionResult of the live executor success holds iff every
\* order was accepted, filled iff every order was confirmed, partial_fill iff
\* some order was accepted and not all were confirmed; filled and partial_fill
\* never hold together, and filled_amount is the sum of the sizes of the
\* confirmed edges.
C34_ResultFlags ==
    LiveResult =>
        LET r == Unwrap(last.result)
            E == 1..Len(last.op.edges)
        IN  /\ r.success <=> \A i \in E : EdgeAccepted(i)
            /\ r.filled <=> \A i \in E : EdgeConfirmed(i)
            /\ r.partial_fill <=>
                   (\E i \in E : EdgeAccepted(i)) /\ ~(\A i \in E : EdgeConfirmed(i))
            /\ ~(r.filled /\ r.partial_fill)
            /\ r.filled_amount =
                   SeqSum([i \in E |-> IF EdgeConfirmed(i)
                                       THEN last.op.edges[i].size ELSE 0])

\* an execution in which one order was accepted and the other was not
C34_Witness ==
    /\ LiveResult
    /\ Unwrap(last.result).partial_fill
    /\ ~Unwrap(last.result).success
    /\ Unwrap(last.result).filled_amount > 0

\* an execution in which every order was accepted
C34_WitnessFilled == LiveResult /\ Unwrap(last.result).filled

\* C35: with admissions and sweeps performed one at a time, the exposure recorded
\* for every market never exceeds max_exposure_per_market.
C35_ExposureWithinCap ==
    \A m \in DOMAIN market_exposure :
        market_exposure[m] <= D(config.max_exposure_per_market)

\* C36: after every risk-manager operation daily_pnl.total_pnl is the sum of the
\* realized and the unrealized P&L of the day, and once that sum is below
\* -daily_loss_limit both should_stop_trading and the admission check refuse.
C36_TotalPnlTracksDay ==
    /\ daily_pnl.total_pnl = daily_pnl.realized_pnl + daily_pnl.unrealized_pnl
    /\ daily_pnl.realized_pnl + daily_pnl.unrealized_pnl < -D(config.daily_loss_limit)
          => should_stop_trading
    /\ (/\ last.kind = "can_execute"
        /\ daily_pnl.realized_pnl + daily_pnl.unrealized_pnl
              < -D(config.daily_loss_limit))
          => ~last.verdict

\* C37: with every record_arbitrage_execution preceded by the admission of the
\* same opportunity and no other admission in between, active_arbs never exceeds
\* max_concurrent_arbs.
C37_ActiveArbsWithinLimit == active_arbs <= config.max_concurrent_arbs

\* the limit is reached and the next opportunity is refused
C37_Witness ==
    /\ active_arbs = config.max_concurrent_arbs
    /\ last.kind = "can_execute"
    /\ ~last.verdict
    /\ recorded = config.max_concurrent_arbs

\* C38: after any sequence of accepted simulate_arbitrage calls the simulated
\* balance minus the initial balance is the sum of the net_profit values of the
\* logged trades, for binary and for multi-outcome opportunities.
C38_BalanceChangeIsReportedProfit ==
    simulated_balance - D(config.bankroll)
        = SeqSum([i \in 1..Len(trades) |-> trades[i].net_profit])

\* the trades of the tracker in the given status
TradesIn(t, status) ==
    Cardinality({i \in 1..Len(t.trades) : t.trades[i].status = status})

\* the trade the last simulate_resolution named, as it stood before the call
ResolvedBefore ==
    {i \in 1..Len(last.before.trades) : last.before.trades[i].id = last.trade_id}

\* C39: every trade of the tracker is resolved at most once: a resolution of a
\* trade that is no longer Open changes neither the balance, total_pnl nor the
\* won and lost counters; trades_entered = open + won + lost; and no Open trade
\* is auto-resolved before entry_time + minutes_to_expiry x 60 s.
C39_ResolvedAtMostOnce ==
    /\ tracker.trades_entered
          = TradesIn(tracker, "Open") + tracker.trades_won + tracker.trades_lost
    /\ (/\ last.kind = "simulate_resolution"
        /\ \E i \in ResolvedBefore : last.before.trades[i].status # "Open")
          => /\ tracker.simulated_balance = last.before.simulated_balance
             /\ tracker.total_pnl = last.before.total_pnl
             /\ tracker.trades_won = last.before.trades_won
             /\ tracker.trades_lost = last.before.trades_lost
    /\ last.kind = "auto_resolve_expired"
          => \A i \in 1..Len(tracker.trades) :
                 (last.before.trades[i].status = "Open"
                  /\ tracker.trades[i].status # "Open")
                     => UtcTimestamp >= tracker.trades[i].entry_time
                                          + tracker.trades[i].minutes_to_expiry * 60

\* C40: the correlation graph built from any catalog holds only Parent and Sibling
\* edges, and the cross-market scan never emits a MutualExclusion opportunity.
C40_NoMutualExclusion ==
    /\ \A i \in 1..Len(correlations) :
           correlations[i].correlation_type \in {"Parent", "Sibling"}
    /\ last.kind = "scan_cross_market"
          => \A i \in 1..Len(last.result) :
                 last.result[i].arb_type # "MutualExclusion"

\* a scan over a Sibling edge whose two Yes asks sum to less than 0.98
C40_Witness ==
    /\ last.kind = "scan_cross_market"
    /\ \E i \in 1..Len(correlations) :
           /\ correlations[i].correlation_type = "Sibling"
           /\ correlations[i].market_a \in DOMAIN market_books
           /\ correlations[i].market_b \in DOMAIN market_books
           /\ market_books[correlations[i].market_a].books[1].bids # EmptyMap
           /\ market_books[correlations[i].market_b].books[1].bids # EmptyMap
           /\ YesAskOf(correlations[i].market_a)
                  + YesAskOf(correlations[i].market_b) < 980

====
